---- MODULE Spec2Model ----
(***************************************************************************)
(* A model of the rs-lb-test reverse proxy (src/testing/rs-lb-test/src):   *)
(* the health monitor (health_monitor.rs), the data plane's selection,     *)
(* matching and URL rewriting (load_balancer.rs, selector.rs, listener.rs),*)
(* the response cache (cache.rs), whole requests with their bb8 pools      *)
(* (load_balancer.rs, connection_pool.rs) and the RwLock around a group's  *)
(* list.                                                                   *)
(*                                                                         *)
(* Rust indexes vectors from 0 and TLA+ sequences from 1: an index i of    *)
(* the model is the index i - 1 of the source.                             *)
(*                                                                         *)
(* health_monitor.rs holds two unfinished statements (a lone `let` at line *)
(* 304 and a lone `if` at line 326); the model leaves these two tokens out *)
(* and follows every complete statement of the source as it is written.    *)
(***************************************************************************)
EXTENDS Integers, Sequences, FiniteSets, TLC

(***************************************************************************)
(* Bounds of the model.                                                    *)
(***************************************************************************)
\* Largest number of targets of the group served by the running proxy.
MaxTargets == 3
\* Number of targets of the group whose health-check passes are driven.
PassTargets == 2
\* Largest configured success_threshold / failure_threshold.
MaxThreshold == 2
\* Width of the model's usize (the RoundRobin counter wraps at 2^CounterBits).
CounterBits == 3
\* Largest number of probe outcomes registered between two classification changes.
MaxProbes == 5
\* Largest configured cache_ttl and the last instant of the clock.
MaxTtl == 3
MaxTime == 6
\* Longest configured path_prefix / path_rewrite and longest request path.
MaxPrefixLen == 3
MaxPathLen == 6

\* Requests in flight at once, targets, pool size, connection_timeout,
\* cache_ttl and last instant of the clock where whole requests are served.
MaxInFlight == 2
MaxServeTargets == 1
MaxPoolSize == 2
MaxTimeout == 1
MaxServeTtl == 1
ServeTime == 2
\* Requests that take the read lock of a group's list at once.
MaxReaders == 1
\* Connections accepted by `listen` in one run of the process.
MaxConnections == 2
\* Target groups handed to HealthMonitor::new.
MaxGroups == 3

Thresholds == 0..MaxThreshold
\* Rounds counted without a change of the upstreams (saturating).
MaxRounds == MaxThreshold + 2
UsizeModulus == 2 ^ CounterBits

VARIABLES
    health_check,       \* TargetGroupHealthCheckConfiguration: the two thresholds
    upstreamOk,         \* socket -> whether the upstream answers 200 OK to a probe
    connection_pools,   \* main.rs `connection_pools`: the list the balancer selects from
    source_connection_pool,                 \* TargetGroupHealthCheck fields
    unhealthy_connection_pool,
    healthy_health_check_connection_pool,
    unhealthy_health_check_connection_pool,
    panicked,           \* the health monitor task ended in a panic
    rounds,             \* rounds (cycles, promotion passes) completed since the
                        \* upstreams or the lists last changed
    recently_unhealthy, \* the indexes the latest check_healthy_connection_pools returned
    selector,           \* RoundRobin's AtomicUsize
    forwarded,          \* the pool the latest request was forwarded to, or NoPool
    recent,             \* the indexes of the latest selections, oldest first
    sinceWrap,          \* selections made since the counter last wrapped
    \* HealthCheckStats driven on its own (SpecStats)
    health_check_stats, \* a HealthCheckStats value
    thresholds,         \* the arguments given to check_health
    sinceChange,        \* probe outcomes registered since the classification last changed
    flip,               \* the latest classification change: the variant left and the
                        \* outcomes registered between the change before it and it
    called,             \* the latest call on the HealthCheckStats value: the method,
                        \* the value it was called on, its argument and what it returned
    probe,              \* the latest run of run_check_health: how the probe went, what
                        \* it registered, how it ended and the stats before and after
    \* RequestCache (SpecCache)
    ttl,                \* RequestCache.ttl
    now,                \* the clock (tokio Instant)
    wake,               \* the instant the cleanup task's sleep ends
    inner,              \* RequestCache.inner: key -> CachedResponse, or Absent
    got,                \* what the latest RequestCache::get returned
    answered,           \* the latest request LoadBalancer::handle_connection answered
    \* matching and rewriting (SpecMatch, SpecRewrite)
    listener_rules,     \* rule name -> ListenerRuleConfiguration
    graft,              \* the uri of the target the request is forwarded to
    request,            \* the latest request: its path and query
    matched,            \* what match_uri returned for it
    upstream_uri,       \* the path and query of the request sent upstream
    \* the request handler with its cache and its bb8 pools (SpecServe)
    cache_enabled,      \* LoadBalancer.cache is Some
    connection_timeout, \* ListenerRuleHandler.connection_timeout
    max_size,           \* connection_pool_size: the max_size of each bb8 pool
    borrowed,           \* socket -> the handles of its bb8 pool that are checked out
    tasks,              \* task -> the request it serves and how far it has got
    probing,            \* socket -> the handles of its health-check pool that are checked out
    \* the RwLock around a group's list (SpecLocks)
    monitored,          \* the list TargetGroupHealthCheck.source_connection_pool points at
    rwlock,             \* list -> the holders of its RwLock
    pass,               \* how far the monitor's pass has got
    handlers,           \* task -> how far its selection has got
    \* main.rs `run` and `main` (SpecMain)
    failing,            \* the startup steps that fail in this environment
    stage,              \* the startup step `run` is at, past the last one while serving
    spawned,            \* connection -> how far the task `listen` spawned for it has got
    shutdown,           \* what completed the select! of run, or "none"
    exit_status,        \* the exit code of the process once it has ended
    \* HealthMonitor::new (SpecMonitorNew)
    target_group_configurations, \* group -> its health_check configuration, or Unconfigured
    creation_fails,     \* the groups TargetGroupHealthCheck::new fails for
    health_monitor,     \* what HealthMonitor::new returned
    monitor_spawned,    \* run spawned health_monitor_thread
    \* the load generator: ClientTargets::run_client_targets (SpecTargets)
    instant,            \* tokio's clock, Instant::now()
    target_config,      \* the TargetConfig of the target
    client_target_threads, \* the JoinHandles held: of running and of failed client tasks
    client_tasks,       \* the client tasks of the target the runtime is running
    failures,           \* failure_window.failures
    ramp,               \* current_ramp, current_ramp_time and the sleep of the select!
    run_result,         \* what run_client_targets returned, and when
    other_targets,      \* the other targets whose run_client_targets has not returned
    runtime,            \* the tokio runtime of main: "running" or "shut down"
    \* the load generator: TargetStatistics and run_statistics (SpecStatistics)
    statistics,         \* the atomics requests, response_time_acc and clients
    client,             \* client -> how far its handle_get has got
    printer,            \* how far run_statistics has got, and the locals of print_statistic
    reports             \* the lines print_statistic has printed

monitorVars == <<source_connection_pool, unhealthy_connection_pool,
                 healthy_health_check_connection_pool,
                 unhealthy_health_check_connection_pool, panicked>>
selectVars == <<selector, forwarded, recent, sinceWrap>>
passVars == <<rounds, recently_unhealthy>>
proxyVars == <<health_check, upstreamOk, connection_pools, monitorVars, passVars, selectVars>>
statsVars == <<health_check_stats, thresholds, sinceChange, flip, called, probe>>
readVars == <<got, answered>>
cacheVars == <<ttl, now, wake, inner, readVars>>
routeVars == <<listener_rules, graft, request, matched, upstream_uri>>
serveVars == <<cache_enabled, connection_timeout, max_size, borrowed, tasks, probing>>
lockVars == <<monitored, rwlock, pass, handlers>>
mainVars == <<failing, stage, spawned, shutdown, exit_status>>
newVars == <<target_group_configurations, creation_fails, health_monitor, monitor_spawned>>
targetVars == <<instant, target_config, client_target_threads, client_tasks, failures,
                ramp, run_result, other_targets, runtime>>
statisticsVars == <<statistics, client, printer, reports>>
loadVars == <<targetVars, statisticsVars>>
startVars == <<mainVars, newVars, loadVars>>
handlerVars == <<serveVars, lockVars, startVars>>
vars == <<proxyVars, statsVars, cacheVars, routeVars, handlerVars>>

(***************************************************************************)
(* Sequence helpers (Vec::remove, descending index lists).                 *)
(***************************************************************************)
RemoveAt(s, i) == SubSeq(s, 1, i - 1) \o SubSeq(s, i + 1, Len(s))

Range(s) == {s[i] : i \in 1..Len(s)}

Max(S) == CHOOSE x \in S : \A y \in S : y <= x

\* A mutant of Descending: the indexes of S, smallest first.
RECURSIVE Ascending(_)
Ascending(S) ==
    IF S = {} THEN <<>>
    ELSE LET least == CHOOSE x \in S : \A y \in S : x <= y
         IN  <<least>> \o Ascending(S \ {least})

\* The indexes of S, largest first: the order of a Vec filled in ascending
\* order and then reversed.
RECURSIVE Descending(_)
Descending(S) ==
    IF S = {} THEN <<>> ELSE <<Max(S)>> \o Descending(S \ {Max(S)})

(***************************************************************************)
(* HealthCheckStats (health_monitor.rs:74-117).                            *)
(***************************************************************************)
SuccessfulCheckCount(n) == [variant |-> "SuccessfulCheckCount", count |-> n]
UnsuccessfulCheckCount(n) == [variant |-> "UnsuccessfulCheckCount", count |-> n]

new_healthy == UnsuccessfulCheckCount(0)
mark_unhealthy == SuccessfulCheckCount(0)
mark_healthy == UnsuccessfulCheckCount(0)

\* A mutant of register_health_check: a successful probe never lowers the
\* failure count.
register_health_check_no_decrement(stats, is_successful) ==
    IF is_successful
    THEN IF stats.variant = "UnsuccessfulCheckCount"
         THEN stats
         ELSE SuccessfulCheckCount(stats.count + 1)
    ELSE IF stats.variant = "SuccessfulCheckCount"
         THEN (IF stats.count = 0 THEN stats ELSE SuccessfulCheckCount(stats.count - 1))
         ELSE UnsuccessfulCheckCount(stats.count + 1)

\* A mutant of register_health_check: an outcome against the counted run
\* clears the counter.
register_health_check_clearing(stats, is_successful) ==
    IF is_successful
    THEN IF stats.variant = "UnsuccessfulCheckCount"
         THEN UnsuccessfulCheckCount(0)
         ELSE SuccessfulCheckCount(stats.count + 1)
    ELSE IF stats.variant = "SuccessfulCheckCount"
         THEN SuccessfulCheckCount(0)
         ELSE UnsuccessfulCheckCount(stats.count + 1)

register_health_check(stats, is_successful) ==
    IF is_successful
    THEN IF stats.variant = "UnsuccessfulCheckCount"
         THEN (IF stats.count = 0 THEN stats ELSE UnsuccessfulCheckCount(stats.count - 1))
         ELSE SuccessfulCheckCount(stats.count + 1)
    ELSE IF stats.variant = "SuccessfulCheckCount"
         THEN (IF stats.count = 0 THEN stats ELSE SuccessfulCheckCount(stats.count - 1))
         ELSE UnsuccessfulCheckCount(stats.count + 1)

\* A mutant of check_health: the classification flips when the counter
\* reaches the threshold.
check_health_at_threshold(stats, failure_threshold, success_threshold) ==
    IF stats.variant = "UnsuccessfulCheckCount"
    THEN IF stats.count >= failure_threshold
         THEN [healthy |-> FALSE, stats |-> mark_unhealthy]
         ELSE [healthy |-> TRUE, stats |-> stats]
    ELSE IF stats.count >= success_threshold
         THEN [healthy |-> TRUE, stats |-> mark_healthy]
         ELSE [healthy |-> FALSE, stats |-> stats]

\* The returned classification and the stats left behind.
check_health(stats, failure_threshold, success_threshold) ==
    IF stats.variant = "UnsuccessfulCheckCount"
    THEN IF stats.count > failure_threshold
         THEN [healthy |-> FALSE, stats |-> mark_unhealthy]
         ELSE [healthy |-> TRUE, stats |-> stats]
    ELSE IF stats.count > success_threshold
         THEN [healthy |-> TRUE, stats |-> mark_healthy]
         ELSE [healthy |-> FALSE, stats |-> stats]

(***************************************************************************)
(* Pools and the wiring of main.rs.                                        *)
(***************************************************************************)
\* A TargetConnectionPool: its socket and the try_from_target_groups call
\* (main.rs:80-88) that built it.
Pool(socket, built_for) == [socket |-> socket, built_for |-> built_for]

\* TargetGroupsConnectionPools::try_from_target_groups: one pool per
\* resolved socket, in the order of the targets.
try_from_target_groups(n, built_for) == [i \in 1..n |-> Pool(i, built_for)]

\* HealthMonitor::new's first argument in main.rs:90-91: the pools built by
\* the second try_from_target_groups call, not the balancer's.
MonitorPools(n) == try_from_target_groups(n, "health_check_connection_pools")

\* TargetGroupHealthCheck::new: one HealthCheckTarget per pool of the list;
\* failure_threshold is set from the configured success_threshold and
\* success_threshold from the configured failure_threshold (lines 249-250).
NewHealthCheckTargets(pools, config) ==
    [i \in 1..Len(pools) |->
        [socket |-> pools[i].socket,
         health_check_stats |-> new_healthy,
         failure_threshold |-> config.success_threshold,
         success_threshold |-> config.failure_threshold]]

\* HealthCheckTarget::is_healthy
is_healthy(target) ==
    check_health(target.health_check_stats, target.failure_threshold,
                 target.success_threshold)

\* HealthCheckTarget::run_check_health: one probe, one registered outcome
\* (true only for 200 OK).
run_check_health(target) ==
    [target EXCEPT !.health_check_stats =
        register_health_check(@, upstreamOk[target.socket])]

\* The probing loop shared by both passes (lines 288-298 and 321-333): each
\* target is probed and asked is_healthy, which may reset its stats.
ProbeAll(targets) ==
    [i \in 1..Len(targets) |->
        LET probed == run_check_health(targets[i])
            verdict == is_healthy(probed)
        IN  [target |-> [probed EXCEPT !.health_check_stats = verdict.stats],
             healthy |-> verdict.healthy]]

NotHealthyIndexes(results) == {i \in 1..Len(results) : ~results[i].healthy}

\* A mutant of MigrateLoop: the removed pool is not pushed anywhere.
RECURSIVE MigrateLoopDropping(_, _, _, _, _)
MigrateLoopDropping(idxs, src, unh, hhc, uhc) ==
    IF idxs = <<>>
    THEN [panic |-> FALSE, src |-> src, unh |-> unh, hhc |-> hhc, uhc |-> uhc]
    ELSE LET i == Head(idxs) IN
         IF i > Len(src) \/ i > Len(hhc)
         THEN [panic |-> TRUE, src |-> src, unh |-> unh, hhc |-> hhc, uhc |-> uhc]
         ELSE MigrateLoopDropping(Tail(idxs), RemoveAt(src, i), unh,
                                  RemoveAt(hhc, i), Append(uhc, hhc[i]))

\* The loop of lines 306-313, repeated verbatim at lines 339-346: for each
\* index, remove the pool from source_connection_pool and push it to
\* unhealthy_connection_pool, then the same for the HealthCheckTarget lists.
\* Vec::remove panics on an index past the end before it changes anything.
RECURSIVE MigrateLoop(_, _, _, _, _)
MigrateLoop(idxs, src, unh, hhc, uhc) ==
    IF idxs = <<>>
    THEN [panic |-> FALSE, src |-> src, unh |-> unh, hhc |-> hhc, uhc |-> uhc]
    ELSE LET i == Head(idxs) IN
         IF i > Len(src)
         THEN [panic |-> TRUE, src |-> src, unh |-> unh, hhc |-> hhc, uhc |-> uhc]
         ELSE IF i > Len(hhc)
         THEN [panic |-> TRUE, src |-> RemoveAt(src, i), unh |-> Append(unh, src[i]),
               hhc |-> hhc, uhc |-> uhc]
         ELSE MigrateLoop(Tail(idxs), RemoveAt(src, i), Append(unh, src[i]),
                          RemoveAt(hhc, i), Append(uhc, hhc[i]))

(***************************************************************************)
(* The state after main.rs `run` has built the pools, the monitor and the  *)
(* balancer for one target group of n targets with health checking on.     *)
(***************************************************************************)
NoPool == [socket |-> 0, built_for |-> "none"]

NoCall == [method |-> "none", on |-> new_healthy, is_successful |-> FALSE,
           returned |-> FALSE]

NoProbe == [outcome |-> "none", registered |-> <<>>, ended |-> "none",
            on |-> new_healthy, after |-> new_healthy]

\* The parts of the model a specification does not drive stay as they are here.
IdleStats ==
    /\ health_check_stats = new_healthy
    /\ thresholds = [failure_threshold |-> 0, success_threshold |-> 0]
    /\ sinceChange = <<>>
    /\ flip = [from |-> "none", probes |-> <<>>]
    /\ called = NoCall
    /\ probe = NoProbe

NoAnswer == [method |-> "none", uri |-> "none", from_cache |-> FALSE,
             response |-> [status |-> 0, body |-> <<>>, origin |-> "none"]]

IdleCache ==
    /\ ttl = 0 /\ now = 0 /\ wake = 0
    /\ inner = <<>>
    /\ got = [hit |-> FALSE, age |-> 0] /\ answered = NoAnswer

NoRequest == [path |-> <<>>, query |-> [some |-> FALSE, text |-> <<>>]]
None == [some |-> FALSE, text |-> <<>>]
Some(text) == [some |-> TRUE, text |-> text]
NothingSent == [sent |-> FALSE, panicked |-> FALSE, path_and_query |-> <<>>]

IdleRoute ==
    /\ listener_rules = <<>>
    /\ graft = <<>>
    /\ request = NoRequest
    /\ matched = None
    /\ upstream_uri = NothingSent

IdleServe ==
    /\ cache_enabled = FALSE
    /\ connection_timeout = 0
    /\ max_size = 0
    /\ borrowed = <<>>
    /\ tasks = <<>>
    /\ probing = <<>>

ListNames == {"connection_pools", "health_check_connection_pools"}

IdleLocks ==
    /\ monitored = "health_check_connection_pools"
    /\ rwlock = [list \in ListNames |-> [readers |-> {}, writer |-> FALSE]]
    /\ pass = [pc |-> "idle", pending |-> <<>>]
    /\ handlers = <<>>

NotExited == [some |-> FALSE, code |-> 0]
NotCalled == [status |-> "not called", health_check_targets |-> <<>>]

IdleMain ==
    /\ failing = {}
    /\ stage = 0
    /\ spawned = <<>>
    /\ shutdown = "none"
    /\ exit_status = NotExited

IdleNew ==
    /\ target_group_configurations = <<>>
    /\ creation_fails = {}
    /\ health_monitor = NotCalled
    /\ monitor_spawned = FALSE

NoStatistics == [requests |-> 0, response_time_acc |-> 0, clients |-> 0]
NotReturned == [status |-> "running", count |-> 0, at |-> 0]
NoPrinter == [pc |-> "none", requests_for_iteration |-> 0, ended |-> 0]

IdleTargets ==
    /\ instant = 0
    /\ target_config = <<>>
    /\ client_target_threads = [running |-> 0, failed |-> 0]
    /\ client_tasks = 0
    /\ failures = <<>>
    /\ ramp = <<>>
    /\ run_result = NotReturned
    /\ other_targets = 0
    /\ runtime = "none"

IdleStatistics ==
    /\ client = <<>>
    /\ printer = NoPrinter
    /\ reports = <<>>

IdleLoad == IdleTargets /\ IdleStatistics /\ statistics = NoStatistics

IdleStart == IdleMain /\ IdleNew /\ IdleLoad

IdleHandlers == IdleServe /\ IdleLocks /\ IdleStart

IdleProxy ==
    /\ health_check = [failure_threshold |-> 0, success_threshold |-> 0]
    /\ upstreamOk = <<>>
    /\ connection_pools = <<>>
    /\ source_connection_pool = <<>>
    /\ unhealthy_connection_pool = <<>>
    /\ healthy_health_check_connection_pool = <<>>
    /\ unhealthy_health_check_connection_pool = <<>>
    /\ panicked = FALSE
    /\ rounds = 0 /\ recently_unhealthy = {}
    /\ selector = 0
    /\ forwarded = NoPool
    /\ recent = <<>>
    /\ sinceWrap = 0

InitWith(n) ==
    /\ health_check \in [failure_threshold : Thresholds, success_threshold : Thresholds]
    /\ upstreamOk = [s \in 1..n |-> TRUE]
    /\ connection_pools = try_from_target_groups(n, "connection_pools")
    /\ source_connection_pool = MonitorPools(n)
    /\ unhealthy_connection_pool = <<>>
    /\ healthy_health_check_connection_pool =
           NewHealthCheckTargets(MonitorPools(n), health_check)
    /\ unhealthy_health_check_connection_pool = <<>>
    /\ panicked = FALSE
    /\ rounds = 0 /\ recently_unhealthy = {}
    /\ selector = 0
    /\ forwarded = NoPool
    /\ recent = <<>>
    /\ sinceWrap = 0
    /\ IdleStats /\ IdleCache /\ IdleRoute /\ IdleHandlers

Init == \E n \in 1..MaxTargets : InitWith(n)

InitPasses == InitWith(PassTargets)

Sockets == DOMAIN upstreamOk

NextRound == IF rounds < MaxRounds THEN rounds + 1 ELSE rounds

(***************************************************************************)
(* The environment: an upstream starts or stops answering 200 OK.          *)
(***************************************************************************)
UpstreamChange(s) ==
    /\ upstreamOk' = [upstreamOk EXCEPT ![s] = ~@]
    /\ rounds' = 0 /\ UNCHANGED recently_unhealthy
    /\ UNCHANGED <<health_check, connection_pools, monitorVars, selectVars>>
    /\ UNCHANGED <<statsVars, cacheVars, routeVars, handlerVars>>

(***************************************************************************)
(* TargetGroupHealthCheck::run_health_check_cycle (lines 267-283): the     *)
(* calls of the passes are commented out (lines 271-274), so a cycle only  *)
(* sleeps out its interval.                                                *)
(***************************************************************************)
RunHealthCheckCycle ==
    /\ ~panicked
    /\ rounds' = NextRound /\ UNCHANGED recently_unhealthy
    /\ UNCHANGED <<health_check, upstreamOk, connection_pools, monitorVars, selectVars>>
    /\ UNCHANGED <<statsVars, cacheVars, routeVars, handlerVars>>

(***************************************************************************)
(* TargetGroupHealthCheck::check_healthy_connection_pools (lines 285-316). *)
(***************************************************************************)
CheckHealthyConnectionPools ==
    /\ ~panicked
    /\ LET results == ProbeAll(healthy_health_check_connection_pool)
           unhealthy_indexes == Descending(NotHealthyIndexes(results))
           probed == [i \in 1..Len(results) |-> results[i].target]
           m == MigrateLoop(unhealthy_indexes, source_connection_pool,
                            unhealthy_connection_pool, probed,
                            unhealthy_health_check_connection_pool)
       IN  /\ source_connection_pool' = m.src
           /\ unhealthy_connection_pool' = m.unh
           /\ healthy_health_check_connection_pool' = m.hhc
           /\ unhealthy_health_check_connection_pool' = m.uhc
           /\ panicked' = m.panic
           /\ rounds' = IF m.src # source_connection_pool THEN 0 ELSE rounds
           /\ recently_unhealthy' = NotHealthyIndexes(results)
    /\ UNCHANGED <<health_check, upstreamOk, connection_pools, selectVars>>
    /\ UNCHANGED <<statsVars, cacheVars, routeVars, handlerVars>>

(***************************************************************************)
(* TargetGroupHealthCheck::check_unhealthy_connection_pools (lines         *)
(* 318-347): the unhealthy targets are probed, the indexes of those that   *)
(* are NOT healthy are collected (line 330), and the loop of the demotion  *)
(* pass is run on them: it removes from source_connection_pool and from    *)
(* healthy_health_check_connection_pool and pushes to the unhealthy lists. *)
(* The parameter recently_unhealthy is never read.                         *)
(***************************************************************************)
CheckUnhealthyConnectionPools ==
    /\ ~panicked
    /\ LET results == ProbeAll(unhealthy_health_check_connection_pool)
           healthy_indexes == Descending(NotHealthyIndexes(results))
           probed == [i \in 1..Len(results) |-> results[i].target]
           m == MigrateLoop(healthy_indexes, source_connection_pool,
                            unhealthy_connection_pool,
                            healthy_health_check_connection_pool, probed)
       IN  /\ source_connection_pool' = m.src
           /\ unhealthy_connection_pool' = m.unh
           /\ healthy_health_check_connection_pool' = m.hhc
           /\ unhealthy_health_check_connection_pool' = m.uhc
           /\ panicked' = m.panic
           /\ rounds' = IF m.src # source_connection_pool THEN 0 ELSE NextRound
           /\ UNCHANGED recently_unhealthy
    /\ UNCHANGED <<health_check, upstreamOk, connection_pools, selectVars>>
    /\ UNCHANGED <<statsVars, cacheVars, routeVars, handlerVars>>

(***************************************************************************)
(* RoundRobin::next_wrapping (selector.rs:10-12): fetch_add wraps at the   *)
(* width of usize; the value before the addition is reduced modulo limit.  *)
(***************************************************************************)
\* A mutant of fetch_add: the counter is advanced by two.
fetch_add_by_two(counter) == (counter + 2) % UsizeModulus

fetch_add(counter) == (counter + 1) % UsizeModulus

next_wrapping(counter, limit) == counter % limit

\* The latest n entries of s.
LastN(s, n) == IF Len(s) <= n THEN s ELSE SubSeq(s, Len(s) - n + 1, Len(s))

(***************************************************************************)
(* ListenerRuleHandler::handle_connection, selection (load_balancer.rs     *)
(* 140-152) for a group whose list is not empty: the index is taken from   *)
(* the selector and the length of the balancer's list, and the request is  *)
(* forwarded to the pool at that index.                                    *)
(***************************************************************************)
HandleConnection ==
    /\ Len(connection_pools) > 0
    /\ LET selection == next_wrapping(selector, Len(connection_pools)) IN
        /\ forwarded' = connection_pools[selection + 1]
        /\ recent' = LastN(Append(recent, selection), Len(connection_pools))
    /\ selector' = fetch_add(selector)
    /\ sinceWrap' = IF selector = 0 THEN 1
                    ELSE IF sinceWrap < Len(connection_pools) THEN sinceWrap + 1
                    ELSE sinceWrap
    /\ UNCHANGED <<health_check, upstreamOk, connection_pools, monitorVars, passVars>>
    /\ UNCHANGED <<statsVars, cacheVars, routeVars, handlerVars>>

(***************************************************************************)
(* Spec: the proxy as main.rs runs it (the monitor task loops over         *)
(* run_health_check_cycle, requests are selected and forwarded).           *)
(* SpecPasses: the two passes of TargetGroupHealthCheck driven directly.   *)
(* SpecRouting: the passes together with the data plane's selection.       *)
(***************************************************************************)
Next ==
    \/ \E s \in Sockets : UpstreamChange(s)
    \/ RunHealthCheckCycle
    \/ HandleConnection

Spec == Init /\ [][Next]_vars

NextPasses ==
    \/ \E s \in Sockets : UpstreamChange(s)
    \/ RunHealthCheckCycle
    \/ CheckHealthyConnectionPools
    \/ CheckUnhealthyConnectionPools

SpecPasses == InitPasses /\ [][NextPasses]_vars

NextRouting ==
    \/ NextPasses
    \/ HandleConnection

SpecRouting == InitPasses /\ [][NextRouting]_vars

(***************************************************************************)
(* SpecStats: one HealthCheckStats value, driven the way a probe drives    *)
(* it: register_health_check with the outcome, then check_health with the  *)
(* thresholds.                                                             *)
(***************************************************************************)
InitStats ==
    /\ health_check_stats = new_healthy
    /\ thresholds \in [failure_threshold : Thresholds, success_threshold : Thresholds]
    /\ sinceChange = <<>>
    /\ flip = [from |-> "none", probes |-> <<>>]
    /\ called = NoCall
    /\ probe = NoProbe
    /\ IdleProxy /\ IdleCache /\ IdleRoute /\ IdleHandlers

RegisterAndCheck(is_successful) ==
    /\ Len(sinceChange) < MaxProbes
    /\ LET registered == register_health_check(health_check_stats, is_successful)
           verdict == check_health(registered, thresholds.failure_threshold,
                                   thresholds.success_threshold)
           outcomes == Append(sinceChange, is_successful)
       IN  /\ health_check_stats' = verdict.stats
           /\ IF verdict.stats.variant # health_check_stats.variant
              THEN /\ flip' = [from |-> health_check_stats.variant, probes |-> outcomes]
                   /\ sinceChange' = <<>>
              ELSE /\ flip' = flip
                   /\ sinceChange' = outcomes
    /\ UNCHANGED <<thresholds, called, probe, proxyVars, cacheVars, routeVars, handlerVars>>

NextStats == \E is_successful \in BOOLEAN : RegisterAndCheck(is_successful)

SpecStats == InitStats /\ [][NextStats]_vars

(***************************************************************************)
(* SpecCache: RequestCache (cache.rs) under a discrete clock.  The cleanup *)
(* task runs as soon as its sleep ends: the clock does not pass `wake`     *)
(* before the task has run, while get and set may still run at that        *)
(* instant before it.                                                      *)
(***************************************************************************)
Keys == {"/a", "/a?y"}

\* StatusCode values the proxy answers with (load_balancer.rs).
NOT_FOUND == 404
SERVICE_UNAVAILABLE == 503
INTERNAL_SERVER_ERROR == 500
GATEWAY_TIMEOUT == 504

\* Response<Full<Bytes>>: the status and the body.  `origin` records who
\* built the response: the proxy itself, or an upstream whose response is
\* relayed (Response::from_parts, load_balancer.rs:227).
NoResponse == [status |-> 0, body |-> <<>>, origin |-> "none"]

\* Response::builder().status(..).body(Full::new(Bytes::new()))
EmptyResponse(status) == [status |-> status, body |-> <<>>, origin |-> "proxy"]

\* The responses an upstream answers with.
UpstreamResponses ==
    {[status |-> 200, body |-> <<"b">>, origin |-> "upstream"],
     [status |-> 404, body |-> <<>>, origin |-> "upstream"]}

Absent == [present |-> FALSE, inner |-> NoResponse, set_time |-> 0]

\* CachedResponse::new: the entry holds the response and is stamped with
\* the current instant.
CachedResponse(response, t) == [present |-> TRUE, inner |-> response, set_time |-> t]

\* A mutant of is_expired: an entry expires as soon as its age reaches the ttl.
is_expired_at_ttl(entry, time_to_live) == now - entry.set_time >= time_to_live

\* CachedResponse::is_expired: set_time.elapsed() > ttl.
is_expired(entry, time_to_live) == now - entry.set_time > time_to_live

InitCache ==
    /\ ttl \in 1..MaxTtl
    /\ now = 0
    /\ wake = ttl                     \* cleanup_thread starts with sleep(ttl)
    /\ inner = [k \in Keys |-> Absent]
    /\ got = [hit |-> FALSE, age |-> 0] /\ answered = NoAnswer
    /\ IdleProxy /\ IdleStats /\ IdleRoute /\ IdleHandlers

Tick ==
    /\ now < MaxTime
    /\ now < wake
    /\ now' = now + 1
    /\ UNCHANGED <<ttl, wake, inner, readVars, proxyVars, statsVars, routeVars, handlerVars>>

\* RequestCache::set
CacheSet(key, response) ==
    /\ inner' = [inner EXCEPT ![key] = CachedResponse(response, now)]
    /\ UNCHANGED <<ttl, now, wake, readVars, proxyVars, statsVars, routeVars, handlerVars>>

\* RequestCache::get: the stored response of the key, whatever its age.
CacheGet(key) ==
    /\ got' = IF inner[key].present
              THEN [hit |-> TRUE, age |-> now - inner[key].set_time]
              ELSE [hit |-> FALSE, age |-> 0]
    /\ UNCHANGED <<ttl, now, wake, inner, answered, proxyVars, statsVars, routeVars,
                   handlerVars>>

\* One turn of RequestCache::cleanup_thread's loop: after sleep(ttl), keep
\* the entries that are not expired, and sleep again.
Cleanup ==
    /\ now >= wake
    /\ inner' = [k \in DOMAIN inner |-> IF inner[k].present /\ ~is_expired(inner[k], ttl)
                               THEN inner[k] ELSE Absent]
    /\ wake' = now + ttl
    /\ UNCHANGED <<ttl, now, readVars, proxyVars, statsVars, routeVars, handlerVars>>

NextCache ==
    \/ Tick
    \/ \E key \in Keys, response \in UpstreamResponses : CacheSet(key, response)
    \/ \E key \in Keys : CacheGet(key)
    \/ Cleanup

SpecCache == InitCache /\ [][NextCache]_vars

(***************************************************************************)
(* Strings are sequences of one-character strings, ordered as Rust orders  *)
(* str: byte by byte, a proper prefix before its extensions.               *)
(***************************************************************************)
PathChars == {"/", "a"}

CharCode(c) == CASE c = "/" -> 47 [] c = "=" -> 61 [] c = "?" -> 63
                 [] c = "a" -> 97 [] c = "g" -> 103 [] c = "v" -> 118
                 [] c = "y" -> 121 [] OTHER -> 0

StringsUpTo(chars, n) == UNION {[1..k -> chars] : k \in 0..n}

Min(S) == CHOOSE x \in S : \A y \in S : x <= y

StrLeq(a, b) ==
    LET common == IF Len(a) < Len(b) THEN Len(a) ELSE Len(b)
        differ == {i \in 1..common : a[i] # b[i]}
    IN  IF differ = {} THEN Len(a) <= Len(b)
        ELSE CharCode(a[Min(differ)]) < CharCode(b[Min(differ)])

starts_with(str, prefix) ==
    Len(prefix) <= Len(str) /\ SubSeq(str, 1, Len(prefix)) = prefix

\* str::strip_prefix: the rest of the string, or None.
strip_prefix(str, prefix) ==
    IF starts_with(str, prefix)
    THEN Some(SubSeq(str, Len(prefix) + 1, Len(str)))
    ELSE None

RECURSIVE trim_start_matches(_, _)
trim_start_matches(str, c) ==
    IF str # <<>> /\ Head(str) = c THEN trim_start_matches(Tail(str), c) ELSE str

RECURSIVE trim_end_matches(_, _)
trim_end_matches(str, c) ==
    IF str # <<>> /\ str[Len(str)] = c
    THEN trim_end_matches(SubSeq(str, 1, Len(str) - 1), c)
    ELSE str

\* Vec::sort on strings (ascending), by insertion.
RECURSIVE InsertSorted(_, _)
InsertSorted(sorted, str) ==
    IF sorted = <<>> THEN <<str>>
    ELSE IF StrLeq(str, Head(sorted)) THEN <<str>> \o sorted
    ELSE <<Head(sorted)>> \o InsertSorted(Tail(sorted), str)

RECURSIVE sort(_)
sort(strs) ==
    IF strs = <<>> THEN <<>> ELSE InsertSorted(sort(Tail(strs)), Head(strs))

reverse(strs) == [i \in 1..Len(strs) |-> strs[Len(strs) + 1 - i]]

(***************************************************************************)
(* ListenerRule (listener.rs:9-32) and LoadBalancer::new / match_uri       *)
(* (load_balancer.rs:27-62, 87-92).                                        *)
(***************************************************************************)
\* impl From<ListenerRuleConfiguration> for ListenerRule
ListenerRule(config) ==
    [path_prefix |-> <<"/">> \o trim_end_matches(trim_start_matches(config.path_prefix, "/"), "/"),
     path_rewrite |-> <<"/">> \o trim_end_matches(trim_start_matches(config.path_rewrite, "/"), "/")]

\* A mutant of the canonical prefix: no "/" is appended.
CanonicalPrefixUnterminated(rule) == trim_end_matches(rule.path_prefix, "/")

\* format!("{}/", r.path_prefix.trim_end_matches("/"))
CanonicalPrefix(rule) == trim_end_matches(rule.path_prefix, "/") \o <<"/">>

RuleNames == {"r1", "r2"}

\* The rules in the order the configuration map yields them.
RECURSIVE RuleList(_, _)
RuleList(rules, names) ==
    IF names = {} THEN <<>>
    ELSE LET name == CHOOSE n \in names : TRUE
         IN  <<ListenerRule(rules[name])>> \o RuleList(rules, names \ {name})

\* A mutant of LoadBalancer::new's prefix list: sorted, but not reversed.
PrefixesAscending(rules) ==
    LET list == RuleList(rules, DOMAIN rules)
    IN  sort([i \in 1..Len(list) |-> CanonicalPrefix(list[i])])

\* LoadBalancer::new, lines 32-38: the canonical prefixes, sorted and reversed.
Prefixes(rules) ==
    LET list == RuleList(rules, DOMAIN rules)
    IN  reverse(sort([i \in 1..Len(list) |-> CanonicalPrefix(list[i])]))

\* A mutant of match_uri: a path no prefix matches goes to the first rule.
match_uri_or_first(prefixes, uri) ==
    LET hits == {i \in 1..Len(prefixes) : starts_with(uri, prefixes[i])}
    IN  IF hits # {} THEN Some(prefixes[Min(hits)])
        ELSE IF Len(prefixes) > 0 THEN Some(prefixes[1]) ELSE None

\* LoadBalancer::match_uri: the first prefix of the list the path starts with.
match_uri(prefixes, uri) ==
    LET hits == {i \in 1..Len(prefixes) : starts_with(uri, prefixes[i])}
    IN  IF hits = {} THEN None ELSE Some(prefixes[Min(hits)])

\* A mutant of the rewriting: only one leading "/" of the tail is dropped.
RewrittenPathAndQueryOneSlash(path, query, path_rewrite, uri) ==
    LET stripped == strip_prefix(path, path_rewrite)
        tail == IF stripped.text # <<>> /\ Head(stripped.text) = "/"
                THEN Tail(stripped.text) ELSE stripped.text
        rewritten_path == IF uri = <<>> THEN <<"/">> \o tail
                          ELSE <<"/">> \o uri \o <<"/">> \o tail
    IN  IF ~stripped.some
        THEN [sent |-> FALSE, panicked |-> TRUE, path_and_query |-> <<>>]
        ELSE [sent |-> TRUE, panicked |-> FALSE,
              path_and_query |-> IF query.some
                                 THEN rewritten_path \o <<"?">> \o query.text
                                 ELSE rewritten_path]

\* ListenerRuleHandler::handle_connection, lines 166-183: the path and query
\* of the upstream request; the expect of line 171 panics when path_rewrite
\* is no prefix of the path.
RewrittenPathAndQuery(path, query, path_rewrite, uri) ==
    LET stripped == strip_prefix(path, path_rewrite)
        sanitised_path_and_query == trim_start_matches(stripped.text, "/")
        rewritten_path == IF uri = <<>> THEN <<"/">> \o sanitised_path_and_query
                          ELSE <<"/">> \o uri \o <<"/">> \o sanitised_path_and_query
    IN  IF ~stripped.some
        THEN [sent |-> FALSE, panicked |-> TRUE, path_and_query |-> <<>>]
        ELSE [sent |-> TRUE, panicked |-> FALSE,
              path_and_query |-> IF query.some
                                 THEN rewritten_path \o <<"?">> \o query.text
                                 ELSE rewritten_path]

RawStrings == StringsUpTo(PathChars, MaxPrefixLen)

\* Request paths: "/" and what follows it.
Paths == {<<"/">> \o rest : rest \in StringsUpTo(PathChars, MaxPathLen - 1)}

Queries == {None, Some(<<>>), Some(<<"y", "=", "a">>)}

\* Target.uri values (target.rs:38-51): none, one segment, two segments.
Grafts == {<<>>, <<"g">>, <<"g", "/", "v">>}

(***************************************************************************)
(* SpecMatch: match_uri applied to any request path, for any two rules.    *)
(* Matching and rewriting keep no state from one request to the next, so   *)
(* SpecMatch and SpecRewrite follow one request per behaviour.             *)
(***************************************************************************)
InitMatch ==
    /\ listener_rules \in [RuleNames -> [path_prefix : RawStrings, path_rewrite : {<<>>}]]
    /\ graft = <<>>
    /\ request = NoRequest
    /\ matched = None
    /\ upstream_uri = NothingSent
    /\ IdleProxy /\ IdleStats /\ IdleCache /\ IdleHandlers

MatchUri(path) ==
    /\ request = NoRequest
    /\ request' = [path |-> path, query |-> None]
    /\ matched' = match_uri(Prefixes(listener_rules), path)
    /\ UNCHANGED <<listener_rules, graft, upstream_uri, proxyVars, statsVars, cacheVars, handlerVars>>

NextMatch == \E path \in Paths : MatchUri(path)

SpecMatch == InitMatch /\ [][NextMatch]_vars

(***************************************************************************)
(* SpecRewrite: a request served by LoadBalancer::handle_connection with   *)
(* one rule whose path_rewrite is its path_prefix, forwarded to a target   *)
(* with any graft uri: match (lines 106-118), then rewrite (166-183).      *)
(***************************************************************************)
InitRewrite ==
    /\ \E raw \in RawStrings :
           listener_rules = [name \in {"r1"} |-> [path_prefix |-> raw, path_rewrite |-> raw]]
    /\ graft \in Grafts
    /\ request = NoRequest
    /\ matched = None
    /\ upstream_uri = NothingSent
    /\ IdleProxy /\ IdleStats /\ IdleCache /\ IdleHandlers

\* The rules whose handler LoadBalancer::new stored under the prefix.
HandlersFor(prefix) ==
    {name \in DOMAIN listener_rules :
        CanonicalPrefix(ListenerRule(listener_rules[name])) = prefix}

HandleRequest(path, query) ==
    LET hit == match_uri(Prefixes(listener_rules), path) IN
    /\ request = NoRequest
    /\ request' = [path |-> path, query |-> query]
    /\ matched' = hit
    /\ IF hit.some
       THEN \E name \in HandlersFor(hit.text) :
               upstream_uri' = RewrittenPathAndQuery(
                                   path, query,
                                   ListenerRule(listener_rules[name]).path_rewrite, graft)
       ELSE upstream_uri' = NothingSent           \* 404, nothing is forwarded
    /\ UNCHANGED <<listener_rules, graft, proxyVars, statsVars, cacheVars, handlerVars>>

NextRewrite == \E path \in Paths, query \in Queries : HandleRequest(path, query)

SpecRewrite == InitRewrite /\ [][NextRewrite]_vars

(***************************************************************************)
(* SpecServe: whole requests served by LoadBalancer::handle_connection     *)
(* (load_balancer.rs:94-125) and ListenerRuleHandler::handle_connection    *)
(* (136-238), MaxInFlight of them at once, each in its own task.  A task   *)
(* takes one step from one await to the next.  The rule is /a -> the one   *)
(* target group; the group has 0..MaxServeTargets targets.  The upstreams  *)
(* and the connections are the environment: a borrow, a ready wait, a send *)
(* and a body read each succeed or fail, and a response arrives or not.    *)
(* Tasks are numbered in the order their requests arrive.                  *)
(***************************************************************************)
Tasks == 1..MaxInFlight

\* Request URLs (a path, no query): one under the rule's prefix, one not.
ServeUris == {<<"/", "a", "/", "a">>, <<"/", "a", "a">>}

NoHandle == [socket |-> 0, id |-> 0]

IdleTask ==
    [pc |-> "idle", uri |-> <<>>, from_cache |-> FALSE, matched |-> None,
     selection |-> [some |-> FALSE, index |-> 0],
     borrow |-> "none", handle |-> NoHandle,
     sent |-> FALSE, sent_at |-> 0, head |-> FALSE, failure |-> "none",
     response |-> NoResponse]

\* A mutant of Pool::get: any handle of the pool, held or not.
PoolGetAny(held, size) == 1..size

\* bb8 Pool::get on a pool of max_size handles: a handle that no
\* PooledConnection holds.
PoolGet(held, size) == (1..size) \ held

\* A mutant of the selection: the counter is advanced before the list is
\* found empty.
SelectionCountingFirst(len, counter) ==
    IF len = 0
    THEN [unavailable |-> TRUE, index |-> 0, counter |-> fetch_add(counter)]
    ELSE [unavailable |-> FALSE, index |-> next_wrapping(counter, len),
          counter |-> fetch_add(counter)]

\* ListenerRuleHandler::handle_connection, lines 142-149: nothing is
\* selected from an empty list; otherwise next_wrapping(len) gives the index.
Selection(len, counter) ==
    IF len = 0
    THEN [unavailable |-> TRUE, index |-> 0, counter |-> counter]
    ELSE [unavailable |-> FALSE, index |-> next_wrapping(counter, len),
          counter |-> fetch_add(counter)]

\* LoadBalancer::handle_connection, lines 120-124: whatever response the
\* match produced is stored in the cache, when there is one, and returned.
\* The handler's locals (the PooledConnection, the timer) are gone by then.
Returned(t, task, response) ==
    /\ tasks' = [tasks EXCEPT ![t] = [task EXCEPT !.pc = "done", !.response = response,
                                                  !.handle = NoHandle, !.sent_at = 0]]
    /\ inner' = IF cache_enabled
                THEN [inner EXCEPT ![task.uri] = CachedResponse(response, now)]
                ELSE inner

\* A panic (an expect on an Err) unwinds the task: the PooledConnection is
\* dropped, no response is built and nothing is stored.
Panicked(t, task, failure) ==
    /\ tasks' = [tasks EXCEPT ![t] = [task EXCEPT !.pc = "panicked", !.failure = failure,
                                                  !.handle = NoHandle, !.sent_at = 0]]
    /\ UNCHANGED inner

\* Dropping the PooledConnection gives the handle back to its pool.
Dropped(handle) == [borrowed EXCEPT ![handle.socket] = @ \ {handle.id}]

\* What no step of a request changes.
ServeFrame ==
    UNCHANGED <<health_check, upstreamOk, connection_pools, monitorVars, passVars,
                forwarded, recent, sinceWrap, statsVars, ttl, readVars, routeVars,
                cache_enabled, connection_timeout, max_size, probing, lockVars,
                startVars>>

\* LoadBalancer::handle_connection up to the borrow's await: the cache
\* lookup (102-104), the match (106-110), then the handler's emptiness
\* check, selection and list access (140-152).
Receive(t, uri) ==
    LET task == [tasks[t] EXCEPT !.uri = uri]
        hit == match_uri(Prefixes(listener_rules), uri)
        chosen == Selection(Len(connection_pools), selector)
    IN
    /\ tasks[t].pc = "idle"
    /\ \A earlier \in 1..(t - 1) : tasks[earlier].pc # "idle"
    /\ IF cache_enabled /\ inner[uri].present
       THEN /\ tasks' = [tasks EXCEPT ![t] =
                           [task EXCEPT !.pc = "done", !.from_cache = TRUE,
                                        !.response = inner[uri].inner]]
            /\ UNCHANGED <<inner, selector>>
       ELSE IF ~hit.some
       THEN /\ Returned(t, task, EmptyResponse(NOT_FOUND))
            /\ UNCHANGED selector
       ELSE IF chosen.unavailable
       THEN /\ Returned(t, [task EXCEPT !.matched = hit],
                        EmptyResponse(SERVICE_UNAVAILABLE))
            /\ selector' = chosen.counter
       ELSE IF chosen.index >= Len(connection_pools)
       THEN /\ Panicked(t, [task EXCEPT !.matched = hit], "Cannot find connection")
            /\ selector' = chosen.counter
       ELSE /\ tasks' = [tasks EXCEPT ![t] =
                           [task EXCEPT !.pc = "borrowing", !.matched = hit,
                                        !.selection = [some |-> TRUE,
                                                       index |-> chosen.index]]]
            /\ selector' = chosen.counter
            /\ UNCHANGED inner
    /\ UNCHANGED <<borrowed, now, wake>>
    /\ ServeFrame

\* The socket of the pool the task selected.
SelectedSocket(task) == connection_pools[task.selection.index + 1].socket

\* c.connection_pool.get().await returned Ok (153-154).
BorrowOk(t) ==
    /\ tasks[t].pc = "borrowing"
    /\ \E id \in PoolGet(borrowed[SelectedSocket(tasks[t])], max_size) :
          /\ borrowed' = [borrowed EXCEPT ![SelectedSocket(tasks[t])] = @ \cup {id}]
          /\ tasks' = [tasks EXCEPT ![t] =
                         [@ EXCEPT !.pc = "ready", !.borrow = "ok",
                                   !.handle = [socket |-> SelectedSocket(tasks[t]),
                                               id |-> id]]]
    /\ UNCHANGED <<inner, selector, now, wake>>
    /\ ServeFrame

\* A mutant of the borrow's Err arm: the failure is unwrapped like the
\* handler's other results, and the task panics.
BorrowFailedPanics(t) ==
    /\ tasks[t].pc = "borrowing"
    /\ Panicked(t, [tasks[t] EXCEPT !.borrow = "failed"], "borrow")
    /\ UNCHANGED <<borrowed, selector, now, wake>>
    /\ ServeFrame

\* c.connection_pool.get().await returned Err (155-162): no connection
\* could be made, or none came free in time.
BorrowFailed(t) ==
    /\ tasks[t].pc = "borrowing"
    /\ Returned(t, [tasks[t] EXCEPT !.borrow = "failed"],
                EmptyResponse(INTERNAL_SERVER_ERROR))
    /\ UNCHANGED <<borrowed, selector, now, wake>>
    /\ ServeFrame

\* Lines 166-216: the upstream request is built, target.ready() returned
\* Ok and the request is sent; the timer of the select! starts.
SendRequest(t) ==
    LET rewritten == RewrittenPathAndQuery(tasks[t].uri, None,
                                           ListenerRule(listener_rules["r1"]).path_rewrite,
                                           <<>>)
    IN
    /\ tasks[t].pc = "ready"
    /\ IF rewritten.panicked
       THEN /\ Panicked(t, tasks[t], "strip")
            /\ borrowed' = Dropped(tasks[t].handle)
       ELSE /\ tasks' = [tasks EXCEPT ![t] =
                           [@ EXCEPT !.pc = "sent", !.sent = TRUE,
                                     !.sent_at = now]]
            /\ UNCHANGED <<inner, borrowed>>
    /\ UNCHANGED <<selector, now, wake>>
    /\ ServeFrame

\* target.ready().await returned Err: the expect of line 213 panics.
ReadyFailed(t) ==
    /\ tasks[t].pc = "ready"
    /\ Panicked(t, tasks[t], "ready")
    /\ borrowed' = Dropped(tasks[t].handle)
    /\ UNCHANGED <<selector, now, wake>>
    /\ ServeFrame

\* send_request resolved with Err before the timer: the expect of line 217
\* panics.
SendFailed(t) ==
    /\ tasks[t].pc = "sent"
    /\ Panicked(t, tasks[t], "send")
    /\ borrowed' = Dropped(tasks[t].handle)
    /\ UNCHANGED <<selector, now, wake>>
    /\ ServeFrame

\* send_request resolved with the upstream's response head and the select!
\* took that branch (216-219); the body is now being collected.
UpstreamResponds(t) ==
    /\ tasks[t].pc = "sent"
    /\ tasks' = [tasks EXCEPT ![t] = [@ EXCEPT !.pc = "collecting", !.head = TRUE,
                                               !.sent_at = 0]]
    /\ UNCHANGED <<inner, borrowed, selector, now, wake>>
    /\ ServeFrame

\* sleep(self.connection_timeout), started when the request was sent, is over.
TimerElapsed(task) == now >= task.sent_at + connection_timeout

\* A mutant of the timer's branch: the status of an unavailable group.
TimeoutResponseUnavailable == EmptyResponse(SERVICE_UNAVAILABLE)

\* The response of the timer's branch of the select! (231-236).
TimeoutResponse == EmptyResponse(GATEWAY_TIMEOUT)

\* A mutant of the timer's branch: the PooledConnection outlives the handler.
ServeTimeoutKeepingHandle(t) ==
    /\ tasks[t].pc = "sent"
    /\ TimerElapsed(tasks[t])
    /\ Returned(t, tasks[t], TimeoutResponse)
    /\ UNCHANGED <<borrowed, selector, now, wake>>
    /\ ServeFrame

\* The timer fired while send_request was still pending (231-236).
ServeTimeout(t) ==
    /\ tasks[t].pc = "sent"
    /\ TimerElapsed(tasks[t])
    /\ Returned(t, tasks[t], TimeoutResponse)
    /\ borrowed' = Dropped(tasks[t].handle)
    /\ UNCHANGED <<selector, now, wake>>
    /\ ServeFrame

\* The body was collected (221-229): the upstream's response is relayed.
CollectBody(t) ==
    /\ tasks[t].pc = "collecting"
    /\ \E response \in UpstreamResponses : Returned(t, tasks[t], response)
    /\ borrowed' = Dropped(tasks[t].handle)
    /\ UNCHANGED <<selector, now, wake>>
    /\ ServeFrame

\* incoming_body.collect().await returned Err: the expect of line 224 panics.
BodyFailed(t) ==
    /\ tasks[t].pc = "collecting"
    /\ Panicked(t, tasks[t], "body")
    /\ borrowed' = Dropped(tasks[t].handle)
    /\ UNCHANGED <<selector, now, wake>>
    /\ ServeFrame

\* The clock advances; a task whose timer is over and the cleanup task
\* whose sleep is over run before it advances further.
ServeTick ==
    /\ now < ServeTime
    /\ cache_enabled => now < wake
    /\ \A t \in Tasks : tasks[t].pc = "sent" => ~TimerElapsed(tasks[t])
    /\ now' = now + 1
    /\ UNCHANGED <<tasks, inner, borrowed, selector, wake>>
    /\ ServeFrame

\* RequestCache::cleanup_thread runs when there is a cache (cache.rs:25).
ServeCleanup ==
    /\ cache_enabled
    /\ Cleanup

InitServe ==
    /\ cache_enabled \in BOOLEAN
    /\ ttl \in IF cache_enabled THEN 1..MaxServeTtl ELSE {0}
    /\ now = 0
    /\ wake = ttl
    /\ inner = [uri \in ServeUris |-> Absent]
    /\ got = [hit |-> FALSE, age |-> 0] /\ answered = NoAnswer
    /\ connection_timeout \in 1..MaxTimeout
    /\ max_size \in 1..MaxPoolSize
    /\ listener_rules = [name \in {"r1"} |->
                            [path_prefix |-> <<"/", "a">>, path_rewrite |-> <<"/", "a">>]]
    /\ graft = <<>> /\ request = NoRequest /\ matched = None /\ upstream_uri = NothingSent
    /\ health_check = [failure_threshold |-> 0, success_threshold |-> 0]
    /\ \E n \in 0..MaxServeTargets :
          /\ upstreamOk = [s \in 1..n |-> TRUE]
          /\ connection_pools = try_from_target_groups(n, "connection_pools")
          /\ source_connection_pool = MonitorPools(n)
          /\ healthy_health_check_connection_pool =
                 NewHealthCheckTargets(MonitorPools(n), health_check)
          /\ borrowed = [s \in 1..n |-> {}]
          /\ probing = [s \in 1..n |-> {}]
    /\ unhealthy_connection_pool = <<>>
    /\ unhealthy_health_check_connection_pool = <<>>
    /\ panicked = FALSE /\ rounds = 0 /\ recently_unhealthy = {}
    /\ selector = 0 /\ forwarded = NoPool /\ recent = <<>> /\ sinceWrap = 0
    /\ tasks = [t \in Tasks |-> IdleTask]
    /\ IdleStats /\ IdleLocks /\ IdleStart

NextServe ==
    \/ \E t \in Tasks, uri \in ServeUris : Receive(t, uri)
    \/ \E t \in Tasks : BorrowOk(t)
    \/ \E t \in Tasks : BorrowFailed(t)
    \/ \E t \in Tasks : SendRequest(t)
    \/ \E t \in Tasks : ReadyFailed(t)
    \/ \E t \in Tasks : SendFailed(t)
    \/ \E t \in Tasks : UpstreamResponds(t)
    \/ \E t \in Tasks : ServeTimeout(t)
    \/ \E t \in Tasks : CollectBody(t)
    \/ \E t \in Tasks : BodyFailed(t)
    \/ ServeTick
    \/ ServeCleanup

SpecServe == InitServe /\ [][NextServe]_vars

(***************************************************************************)
(* SpecLocks: the RwLock around a group's list.  A pass of the monitor     *)
(* probes, takes the write lock of source_connection_pool (lines 302,      *)
(* 337), moves one pool per turn of its loop and lets the lock go when the *)
(* function returns; a request takes the read lock of the handler's list   *)
(* (load_balancer.rs:140), computes its index from the length (149), reads *)
(* the list at that index (151) and keeps the guard until the handler      *)
(* returns.  Each of these is a step of its own, so that passes and        *)
(* requests interleave as they do on a multi-threaded runtime.             *)
(* TargetGroupHealthCheck::new takes the Arc of any list (lines 231-233):  *)
(* the list of the second set of pools, which main.rs:85-91 hands to the   *)
(* monitor, and the very list the balancer selects from are both covered.  *)
(***************************************************************************)
LockTasks == 1..MaxReaders

\* tokio RwLock::read: granted while no writer holds the lock.
CanRead(l) == ~l.writer

\* tokio RwLock::write: granted while nobody holds the lock.
CanWrite(l) == ~l.writer /\ l.readers = {}

\* The lists are Arcs: when the monitor was built on the balancer's list,
\* a write to source_connection_pool is a write to that list.
WriteList(new) ==
    /\ source_connection_pool' = new
    /\ connection_pools' = IF monitored = "connection_pools" THEN new ELSE connection_pools

LocksFrame ==
    UNCHANGED <<health_check, passVars, forwarded, recent, sinceWrap, monitored,
                statsVars, cacheVars, routeVars, serveVars, startVars>>

InitLocks ==
    /\ monitored \in ListNames
    /\ health_check = [failure_threshold |-> 0, success_threshold |-> 0]
    /\ upstreamOk = [s \in 1..PassTargets |-> TRUE]
    /\ connection_pools = try_from_target_groups(PassTargets, "connection_pools")
    /\ source_connection_pool = IF monitored = "connection_pools" THEN connection_pools
                                ELSE MonitorPools(PassTargets)
    /\ unhealthy_connection_pool = <<>>
    /\ healthy_health_check_connection_pool =
           NewHealthCheckTargets(source_connection_pool, health_check)
    /\ unhealthy_health_check_connection_pool = <<>>
    /\ panicked = FALSE /\ rounds = 0 /\ recently_unhealthy = {}
    /\ selector = 0 /\ forwarded = NoPool /\ recent = <<>> /\ sinceWrap = 0
    /\ rwlock = [list \in ListNames |-> [readers |-> {}, writer |-> FALSE]]
    /\ pass = [pc |-> "idle", pending |-> <<>>]
    /\ handlers = [t \in LockTasks |-> [pc |-> "idle", index |-> 0]]
    /\ IdleStats /\ IdleCache /\ IdleRoute /\ IdleServe /\ IdleStart

\* An upstream starts or stops answering 200 OK.
LocksUpstreamChange(s) ==
    /\ upstreamOk' = [upstreamOk EXCEPT ![s] = ~@]
    /\ UNCHANGED <<connection_pools, monitorVars, selector, rwlock, pass, handlers>>
    /\ LocksFrame

\* check_healthy_connection_pools, lines 286-300: the healthy targets are
\* probed and the indexes of those no longer healthy are listed, last first.
ProbeHealthy ==
    /\ ~panicked /\ pass.pc = "idle"
    /\ LET results == ProbeAll(healthy_health_check_connection_pool) IN
        /\ healthy_health_check_connection_pool' =
               [i \in 1..Len(results) |-> results[i].target]
        /\ pass' = [pc |-> "locking",
                    pending |-> Descending(NotHealthyIndexes(results))]
    /\ UNCHANGED <<upstreamOk, connection_pools, source_connection_pool,
                   unhealthy_connection_pool, unhealthy_health_check_connection_pool,
                   panicked, selector, rwlock, handlers>>
    /\ LocksFrame

\* check_unhealthy_connection_pools, lines 319-335.
ProbeUnhealthy ==
    /\ ~panicked /\ pass.pc = "idle"
    /\ LET results == ProbeAll(unhealthy_health_check_connection_pool) IN
        /\ unhealthy_health_check_connection_pool' =
               [i \in 1..Len(results) |-> results[i].target]
        /\ pass' = [pc |-> "locking",
                    pending |-> Descending(NotHealthyIndexes(results))]
    /\ UNCHANGED <<upstreamOk, connection_pools, source_connection_pool,
                   unhealthy_connection_pool, healthy_health_check_connection_pool,
                   panicked, selector, rwlock, handlers>>
    /\ LocksFrame

\* self.source_connection_pool.write().await (lines 302, 337).
PassLock ==
    /\ pass.pc = "locking"
    /\ CanWrite(rwlock[monitored])
    /\ rwlock' = [rwlock EXCEPT ![monitored].writer = TRUE]
    /\ pass' = [pass EXCEPT !.pc = "migrating"]
    /\ UNCHANGED <<upstreamOk, connection_pools, monitorVars, selector, handlers>>
    /\ LocksFrame

\* One turn of the loop of lines 306-313 (339-346).  A panic unwinds the
\* pass: the guard is dropped and the monitor task is gone.
PassMove ==
    /\ pass.pc = "migrating" /\ pass.pending # <<>>
    /\ LET m == MigrateLoop(<<Head(pass.pending)>>, source_connection_pool,
                            unhealthy_connection_pool,
                            healthy_health_check_connection_pool,
                            unhealthy_health_check_connection_pool)
       IN  /\ WriteList(m.src)
           /\ unhealthy_connection_pool' = m.unh
           /\ healthy_health_check_connection_pool' = m.hhc
           /\ unhealthy_health_check_connection_pool' = m.uhc
           /\ panicked' = m.panic
           /\ IF m.panic
              THEN /\ pass' = [pc |-> "idle", pending |-> <<>>]
                   /\ rwlock' = [rwlock EXCEPT ![monitored].writer = FALSE]
              ELSE /\ pass' = [pass EXCEPT !.pending = Tail(@)]
                   /\ UNCHANGED rwlock
    /\ UNCHANGED <<upstreamOk, selector, handlers>>
    /\ LocksFrame

\* The pass returns (lines 315, 347): the write guard is dropped.
PassUnlock ==
    /\ pass.pc = "migrating" /\ pass.pending = <<>>
    /\ rwlock' = [rwlock EXCEPT ![monitored].writer = FALSE]
    /\ pass' = [pass EXCEPT !.pc = "idle"]
    /\ UNCHANGED <<upstreamOk, connection_pools, monitorVars, selector, handlers>>
    /\ LocksFrame

\* The read guard of the task is dropped.
ReadUnlocked(t) == [rwlock EXCEPT !["connection_pools"].readers = @ \ {t}]

\* self.connection_pool.read().await (load_balancer.rs:140).
ReadLock(t) ==
    /\ handlers[t].pc = "idle"
    /\ CanRead(rwlock["connection_pools"])
    /\ rwlock' = [rwlock EXCEPT !["connection_pools"].readers = @ \cup {t}]
    /\ handlers' = [handlers EXCEPT ![t].pc = "guarded"]
    /\ UNCHANGED <<upstreamOk, connection_pools, monitorVars, selector, pass>>
    /\ LocksFrame

\* A mutant of the selection: the guard is a temporary of the statement
\* that takes the length, and is dropped before the list is read.
SelectPoolDroppingGuard(t) ==
    LET chosen == Selection(Len(connection_pools), selector) IN
    /\ handlers[t].pc = "guarded"
    /\ handlers' = [handlers EXCEPT ![t] =
                       IF chosen.unavailable THEN [pc |-> "idle", index |-> 0]
                       ELSE [pc |-> "selected", index |-> chosen.index]]
    /\ rwlock' = ReadUnlocked(t)
    /\ selector' = chosen.counter
    /\ UNCHANGED <<upstreamOk, connection_pools, monitorVars, pass>>
    /\ LocksFrame

\* Lines 142-149, under the guard: the empty list is answered 503 and the
\* handler returns; otherwise the index is computed from the length.
SelectPool(t) ==
    LET chosen == Selection(Len(connection_pools), selector) IN
    /\ handlers[t].pc = "guarded"
    /\ handlers' = [handlers EXCEPT ![t] =
                       IF chosen.unavailable THEN [pc |-> "idle", index |-> 0]
                       ELSE [pc |-> "selected", index |-> chosen.index]]
    /\ rwlock' = IF chosen.unavailable THEN ReadUnlocked(t) ELSE rwlock
    /\ selector' = chosen.counter
    /\ UNCHANGED <<upstreamOk, connection_pools, monitorVars, pass>>
    /\ LocksFrame

\* connection_pool_guard.get(selection) (151-153): None panics with
\* "Cannot find connection".
GetPool(t) ==
    /\ handlers[t].pc = "selected"
    /\ IF handlers[t].index >= Len(connection_pools)
       THEN /\ handlers' = [handlers EXCEPT ![t].pc = "panicked"]
            /\ rwlock' = ReadUnlocked(t)
       ELSE /\ handlers' = [handlers EXCEPT ![t].pc = "forwarding"]
            /\ UNCHANGED rwlock
    /\ UNCHANGED <<upstreamOk, connection_pools, monitorVars, selector, pass>>
    /\ LocksFrame

\* The handler returns (154-238): the guard is dropped with its other locals.
FinishRequest(t) ==
    /\ handlers[t].pc = "forwarding"
    /\ handlers' = [handlers EXCEPT ![t] = [pc |-> "idle", index |-> 0]]
    /\ rwlock' = ReadUnlocked(t)
    /\ UNCHANGED <<upstreamOk, connection_pools, monitorVars, selector, pass>>
    /\ LocksFrame

NextLocks ==
    \/ \E s \in Sockets : LocksUpstreamChange(s)
    \/ ProbeHealthy
    \/ ProbeUnhealthy
    \/ PassLock
    \/ PassMove
    \/ PassUnlock
    \/ \E t \in LockTasks : ReadLock(t)
    \/ \E t \in LockTasks : SelectPool(t)
    \/ \E t \in LockTasks : GetPool(t)
    \/ \E t \in LockTasks : FinishRequest(t)

SpecLocks == InitLocks /\ [][NextLocks]_vars

(***************************************************************************)
(* Views of the monitor's lists used by the properties.                    *)
(***************************************************************************)
SocketsOf(pools) == {pools[i].socket : i \in 1..Len(pools)}

\* The sockets of the monitor's healthy list.
HealthySockets == SocketsOf(source_connection_pool)

Occurrences(pools, p) == Cardinality({i \in 1..Len(pools) : pools[i] = p})

\* The list TargetGroupHealthCheck::new was given.
InitialPools == MonitorPools(Cardinality(Sockets))

\* The HealthCheckTarget of socket s, wherever it is.
TargetIn(hhc, uhc, s) == CHOOSE t \in Range(hhc) \cup Range(uhc) : t.socket = s

BothThresholds == {health_check.failure_threshold, health_check.success_threshold}

(***************************************************************************)
(* C1 (confirmed, SpecPasses): after any sequence of demotion and          *)
(* promotion passes, every pool of the list the monitor was built on is in *)
(* exactly one of source_connection_pool and unhealthy_connection_pool,    *)
(* and the two lengths add up to the initial number of pools.              *)
(***************************************************************************)
C1_PoolsPartitioned ==
    /\ \A p \in Range(InitialPools) :
           Occurrences(source_connection_pool, p)
               + Occurrences(unhealthy_connection_pool, p) = 1
    /\ Len(source_connection_pool) + Len(unhealthy_connection_pool)
           = Len(InitialPools)

\* Both passes have acted: a target of the unhealthy list carries stats of
\* the healthy variant (only a promotion pass leaves that behind), and a pool
\* is still in the healthy list.
C1_Witness ==
    /\ Len(source_connection_pool) >= 1
    /\ \E i \in 1..Len(unhealthy_health_check_connection_pool) :
           unhealthy_health_check_connection_pool[i].health_check_stats.variant
               = "UnsuccessfulCheckCount"

(***************************************************************************)
(* C2 (code_bug, SpecRouting): a request is only ever forwarded to an      *)
(* upstream that is in the monitor's healthy list (the list it demotes     *)
(* from) at the time of selection.  Compared by socket, which favours the  *)
(* claim: main.rs hands the monitor a list of its own, so the pools of the *)
(* two lists are never the same objects.                                   *)
(***************************************************************************)
C2_ForwardedOnlyToHealthy ==
    [][selector' # selector => forwarded'.socket \in HealthySockets]_vars

(***************************************************************************)
(* C3 (code_bug, Spec): an upstream that has been failing for more health- *)
(* check cycles than the thresholds is no longer in the healthy list.      *)
(***************************************************************************)
C3_FailingUpstreamDemoted ==
    \A s \in Sockets :
        (~upstreamOk[s] /\ \A t \in BothThresholds : rounds > t)
            => s \notin HealthySockets

(***************************************************************************)
(* C4 (code_bug, SpecPasses): an upstream that has been answering 200 OK   *)
(* for more rounds (cycles or promotion passes) than the thresholds is in  *)
(* the healthy list.                                                       *)
(***************************************************************************)
C4_RecoveredUpstreamPromoted ==
    \A s \in Sockets :
        (upstreamOk[s] /\ \A t \in BothThresholds : rounds > t)
            => s \in HealthySockets

(***************************************************************************)
(* C5 (corrected, SpecStats).  As claimed: the stats leave the healthy     *)
(* variant only when, since the classification last changed, the failed    *)
(* probes outnumber the successful ones by at least failure_threshold.     *)
(***************************************************************************)
CountOf(outcomes, b) == Cardinality({i \in 1..Len(outcomes) : outcomes[i] = b})

\* Failed minus successful probes among the outcomes from position k on.
ExcessFrom(outcomes, k) ==
    LET suffix == SubSeq(outcomes, k, Len(outcomes))
    IN  CountOf(suffix, FALSE) - CountOf(suffix, TRUE)

C5_FailuresOutnumberSuccesses ==
    flip.from = "UnsuccessfulCheckCount"
        => ExcessFrom(flip.probes, 1) >= thresholds.failure_threshold

\* As amended: ... only when, over some trailing run of the probes since
\* the classification last changed, the failed probes outnumber the
\* successful ones by more than failure_threshold.
C5_TrailingFailuresOutnumberSuccesses ==
    flip.from = "UnsuccessfulCheckCount"
        => \E k \in 1..Len(flip.probes) :
               ExcessFrom(flip.probes, k) > thresholds.failure_threshold

\* The stats left the healthy variant after a run that holds a success.
C5_Witness ==
    /\ flip.from = "UnsuccessfulCheckCount"
    /\ CountOf(flip.probes, TRUE) >= 1
    /\ thresholds.failure_threshold >= 1

(***************************************************************************)
(* C6 (code_bug, SpecPasses): a target's stats leave the healthy variant   *)
(* only when its failure count exceeds the configured failure_threshold,   *)
(* and leave the unhealthy variant only when its success count exceeds the *)
(* configured success_threshold.                                           *)
(***************************************************************************)
C6_ConfiguredThresholdsApplied ==
    [][\A s \in Sockets :
          LET before == TargetIn(healthy_health_check_connection_pool,
                                 unhealthy_health_check_connection_pool,
                                 s).health_check_stats
              after == TargetIn(healthy_health_check_connection_pool',
                                unhealthy_health_check_connection_pool',
                                s).health_check_stats
          IN  /\ (before.variant = "UnsuccessfulCheckCount"
                    /\ after.variant = "SuccessfulCheckCount")
                     => before.count + 1 > health_check.failure_threshold
              /\ (before.variant = "SuccessfulCheckCount"
                    /\ after.variant = "UnsuccessfulCheckCount")
                     => before.count + 1 > health_check.success_threshold]_vars

(***************************************************************************)
(* C7 (code_bug, SpecCache): RequestCache::get never returns an entry      *)
(* whose age exceeds the TTL at the moment of the read.                    *)
(***************************************************************************)
C7_NoExpiredEntryReturned == got.hit => got.age <= ttl

(***************************************************************************)
(* C8 (corrected, Spec).  As claimed: any N consecutive selections over a  *)
(* list of fixed size N pick each of the N pools exactly once, in cyclic   *)
(* order.                                                                  *)
(***************************************************************************)
InCyclicOrder(picks, n) ==
    /\ {picks[i] : i \in 1..Len(picks)} = 0..(n - 1)
    /\ \A i \in 1..(Len(picks) - 1) : picks[i + 1] = (picks[i] + 1) % n

C8_AnyWindowIsACycle ==
    Len(recent) = Len(connection_pools)
        => InCyclicOrder(recent, Len(connection_pools))

\* As amended: the same for any N consecutive selections between which the
\* usize counter does not wrap around.
C8_WindowWithoutWrapIsACycle ==
    (Len(recent) = Len(connection_pools) /\ sinceWrap >= Len(connection_pools))
        => InCyclicOrder(recent, Len(connection_pools))

\* Three pools, and the latest three selections made without a wrap.
C8_Witness ==
    /\ Len(connection_pools) = 3
    /\ Len(recent) = 3
    /\ sinceWrap >= 3
    /\ selector > 3

(***************************************************************************)
(* C9 (confirmed, SpecMatch): match_uri returns the longest canonical rule *)
(* prefix that is a prefix of the request path, and no match only when no  *)
(* canonical rule prefix is a prefix of the path.                          *)
(***************************************************************************)
CanonicalPrefixes ==
    {CanonicalPrefix(ListenerRule(listener_rules[name])) : name \in DOMAIN listener_rules}

C9_LongestPrefixWins ==
    request # NoRequest =>
        LET candidates == {c \in CanonicalPrefixes : starts_with(request.path, c)}
        IN  IF candidates = {} THEN matched = None
            ELSE /\ matched.some
                 /\ matched.text \in candidates
                 /\ \A c \in candidates : Len(c) <= Len(matched.text)

\* Rules /a and /a/a, and the path /a/a/a routed by /a/a.
C9_Witness ==
    /\ CanonicalPrefixes = {<<"/", "a", "/">>, <<"/", "a", "/", "a", "/">>}
    /\ request.path = <<"/", "a", "/", "a", "/", "a">>
    /\ matched = Some(<<"/", "a", "/", "a", "/">>)

(***************************************************************************)
(* C10 (corrected, SpecRewrite).  As claimed: a request /R/x?q matched by  *)
(* the rule with prefix R and rewrite R and forwarded to a target with     *)
(* graft G is sent upstream as /G/x?q, or as /x?q when G is empty.         *)
(***************************************************************************)
\* The configured R of the rule.
RuleR == listener_rules["r1"].path_prefix

\* The request path is /R/x for some x.
OfClaimedShape == starts_with(request.path, <<"/">> \o RuleR \o <<"/">>)

\* The x of a request path /R/x.
TailX == SubSeq(request.path, Len(RuleR) + 3, Len(request.path))

WithQuery(path) ==
    IF request.query.some THEN path \o <<"?">> \o request.query.text ELSE path

Grafted(x) ==
    WithQuery(IF graft = <<>> THEN <<"/">> \o x ELSE <<"/">> \o graft \o <<"/">> \o x)

C10_RewrittenToGraftAndTail ==
    (request # NoRequest /\ OfClaimedShape /\ matched.some)
        => upstream_uri = [sent |-> TRUE, panicked |-> FALSE,
                           path_and_query |-> Grafted(TailX)]

\* As amended: ... is sent upstream as /G/x'?q, or as /x'?q when G is empty,
\* where x' is x without its leading slashes.
C10_RewrittenToGraftAndTrimmedTail ==
    (request # NoRequest /\ OfClaimedShape /\ matched.some)
        => upstream_uri = [sent |-> TRUE, panicked |-> FALSE,
                           path_and_query |-> Grafted(trim_start_matches(TailX, "/"))]

\* Graft g/v, rule a, GET /a/a?y=a forwarded as GET /g/v/a?y=a.
C10_Witness ==
    /\ RuleR = <<"a">>
    /\ graft = <<"g", "/", "v">>
    /\ request = [path |-> <<"/", "a", "/", "a">>, query |-> Some(<<"y", "=", "a">>)]
    /\ matched.some
    /\ upstream_uri.path_and_query
           = <<"/", "g", "/", "v", "/", "a", "?", "y", "=", "a">>

(***************************************************************************)
(* Views of the served requests used by the properties.                    *)
(***************************************************************************)
\* The canonical prefixes of the configured rules, as LoadBalancer::new
\* writes them (listener.rs:17-24, load_balancer.rs:34).
RulePrefixes ==
    {CanonicalPrefix(ListenerRule(listener_rules[name])) : name \in DOMAIN listener_rules}

\* The tasks that sent a request to an upstream.
Senders == {t \in DOMAIN tasks : tasks[t].sent}

(***************************************************************************)
(* C11: with the cache enabled, only responses relayed from an upstream    *)
(* are ever stored in the RequestCache; a response the proxy built itself  *)
(* (404, 503, 500, 504) is never stored.                                   *)
(***************************************************************************)
C11_OnlyUpstreamResponsesCached ==
    cache_enabled =>
        \A uri \in DOMAIN inner :
            inner[uri].present => inner[uri].inner.origin = "upstream"

\* The request path of the task lies under a configured rule.
UnderARule(task) == \E prefix \in RulePrefixes : starts_with(task.uri, prefix)

(***************************************************************************)
(* C12: when the matched rule's list is empty at selection time, the       *)
(* request is answered 503 SERVICE_UNAVAILABLE with an empty body, no      *)
(* index is computed (the selector is not advanced) and no upstream is     *)
(* contacted.                                                              *)
(***************************************************************************)
C12_EmptyListAnswered503 ==
    \A t \in DOMAIN tasks :
        (tasks[t].pc # "idle" /\ UnderARule(tasks[t]) /\ Len(connection_pools) = 0)
        => /\ tasks[t].pc = "done"
           /\ tasks[t].response.status = SERVICE_UNAVAILABLE
           /\ tasks[t].response.body = <<>>
           /\ ~tasks[t].selection.some
           /\ tasks[t].borrow = "none"
           /\ ~tasks[t].sent
           /\ selector = 0

C12_Witness ==
    \E t \in DOMAIN tasks :
        /\ tasks[t].pc = "done" /\ ~tasks[t].from_cache
        /\ tasks[t].matched.some
        /\ Len(connection_pools) = 0
        /\ tasks[t].response.status = SERVICE_UNAVAILABLE

(***************************************************************************)
(* C13: a request that was sent to the selected upstream and for which no  *)
(* response has arrived when connection_timeout has elapsed since the send *)
(* is answered 504 GATEWAY_TIMEOUT: the handler does not wait past the     *)
(* timer, and a sent request that ends without an upstream response ends   *)
(* with the empty 504.                                                     *)
(***************************************************************************)
C13_SilentUpstreamAnswered504 ==
    \A t \in DOMAIN tasks :
        /\ tasks[t].pc = "sent" => now <= tasks[t].sent_at + connection_timeout
        /\ (tasks[t].pc = "done" /\ tasks[t].sent /\ ~tasks[t].head)
           => /\ tasks[t].response.status = GATEWAY_TIMEOUT
              /\ tasks[t].response.body = <<>>

C13_Witness ==
    \E t \in DOMAIN tasks :
        /\ tasks[t].pc = "done" /\ tasks[t].sent /\ ~tasks[t].head
        /\ tasks[t].response.status = GATEWAY_TIMEOUT
        /\ now >= connection_timeout

(***************************************************************************)
(* C14: each upstream failure that happens after a handle was borrowed     *)
(* (the handle not becoming ready, a send error, a body read error) is     *)
(* answered with an HTTP 5xx response; none of them ends the request       *)
(* handler without a response.                                             *)
(***************************************************************************)
C14_UpstreamFailuresAnswered5xx ==
    \A t \in DOMAIN tasks :
        tasks[t].failure \in {"ready", "send", "body"}
        => /\ tasks[t].pc = "done"
           /\ tasks[t].response.status \in 500..599

\* The task holds the PooledConnection it borrowed.
Holding(task) == task.pc \in {"ready", "sent", "collecting"}

(***************************************************************************)
(* C15: no upstream connection handle is held by two in-flight requests    *)
(* at the same time, and a handle a request holds is checked out of its    *)
(* pool (unavailable to every other acquirer) until the holder drops it.   *)
(***************************************************************************)
C15_OneBorrowerPerHandle ==
    /\ \A t \in DOMAIN tasks :
          Holding(tasks[t]) => tasks[t].handle.id \in borrowed[tasks[t].handle.socket]
    /\ \A t1, t2 \in DOMAIN tasks :
          (t1 # t2 /\ Holding(tasks[t1]) /\ Holding(tasks[t2]))
          => tasks[t1].handle # tasks[t2].handle

C15_Witness ==
    \E t1, t2 \in DOMAIN tasks :
        /\ t1 # t2
        /\ Holding(tasks[t1]) /\ Holding(tasks[t2])
        /\ tasks[t1].handle.socket = tasks[t2].handle.socket
        /\ tasks[t1].handle.id # tasks[t2].handle.id

(***************************************************************************)
(* C16: pools are moved between the healthy and the unhealthy list only    *)
(* while the health monitor holds the write lock of the list, and no       *)
(* request holds the read guard meanwhile; so the index a selection        *)
(* computed from the length of the list is a valid index of the list it    *)
(* then reads, and the "Cannot find connection" abort is unreachable.      *)
(***************************************************************************)
C16_MovesUnderWriteLock ==
    /\ [](\A t \in DOMAIN handlers :
            /\ handlers[t].pc # "panicked"
            /\ handlers[t].pc = "selected" => handlers[t].index < Len(connection_pools)
            /\ t \in rwlock["connection_pools"].readers
               => ~rwlock["connection_pools"].writer)
    /\ [][(\/ source_connection_pool' # source_connection_pool
           \/ connection_pools' # connection_pools
           \/ unhealthy_connection_pool' # unhealthy_connection_pool)
          => /\ rwlock[monitored].writer
             /\ pass.pc = "migrating"]_vars

C16_Witness ==
    /\ monitored = "connection_pools"
    /\ Len(connection_pools) < PassTargets
    /\ pass.pc = "locking" /\ pass.pending # <<>>
    /\ \E t \in DOMAIN handlers :
          /\ handlers[t].pc = "selected"
          /\ t \in rwlock["connection_pools"].readers

\* The entry of the cache is not older than the ttl.
Fresh(entry) == entry.present /\ now - entry.set_time <= ttl

(***************************************************************************)
(* C17: with the cache enabled, a request whose URL has a stored entry     *)
(* that is not expired is answered with a clone of the stored response     *)
(* without matching, selecting, advancing the round-robin counter or       *)
(* contacting an upstream; and no entry is dropped before it is older than *)
(* the ttl, so a second identical GET within the ttl does not reach the    *)
(* upstream.                                                               *)
(***************************************************************************)
C17_CacheHitAnsweredFromCache ==
    /\ [][\A t \in DOMAIN tasks :
            (/\ tasks[t].pc = "idle" /\ tasks'[t].pc # "idle"
             /\ cache_enabled /\ Fresh(inner[tasks'[t].uri]))
            => /\ tasks'[t].pc = "done"
               /\ tasks'[t].response = inner[tasks'[t].uri].inner
               /\ ~tasks'[t].matched.some
               /\ ~tasks'[t].selection.some
               /\ tasks'[t].borrow = "none"
               /\ ~tasks'[t].sent
               /\ selector' = selector
               /\ borrowed' = borrowed
               /\ inner' = inner]_vars
    /\ [][\A uri \in DOMAIN inner :
            (cache_enabled /\ Fresh(inner[uri])) => inner'[uri].present]_vars

C17_Witness ==
    \E t1, t2 \in DOMAIN tasks :
        /\ tasks[t1].pc = "done" /\ tasks[t1].sent /\ tasks[t1].head
        /\ tasks[t2].pc = "done" /\ tasks[t2].from_cache
        /\ tasks[t2].uri = tasks[t1].uri
        /\ tasks[t2].response = tasks[t1].response
        /\ tasks[t2].response.origin = "upstream"
        /\ Fresh(inner[tasks[t2].uri])
        /\ Cardinality(Senders) = 1

(***************************************************************************)
(* C18: a request whose path matches no listener rule prefix is answered   *)
(* 404 NOT_FOUND with an empty body, without selecting or contacting any   *)
(* upstream.                                                               *)
(***************************************************************************)
C18_NoMatchAnswered404 ==
    \A t \in DOMAIN tasks :
        (tasks[t].pc # "idle" /\ ~UnderARule(tasks[t]))
        => /\ tasks[t].pc = "done"
           /\ tasks[t].response.status = NOT_FOUND
           /\ tasks[t].response.body = <<>>
           /\ tasks[t].response.origin = "proxy"
           /\ ~tasks[t].selection.some
           /\ tasks[t].borrow = "none"
           /\ ~tasks[t].sent

C18_Witness ==
    \E t \in DOMAIN tasks :
        /\ tasks[t].pc = "done" /\ ~tasks[t].from_cache
        /\ ~UnderARule(tasks[t])
        /\ tasks[t].response.status = NOT_FOUND
        /\ Len(connection_pools) > 0

\* The segments a configured prefix names: the prefix without the slashes
\* around it.
Segments(raw) == trim_end_matches(trim_start_matches(raw, "/"), "/")

\* The path continues past the segments of the prefix with a "/": it lies
\* under the prefix at a path-segment boundary.
AtSegmentBoundary(raw, path) ==
    LET upto == IF Segments(raw) = <<>> THEN <<"/">>
                ELSE <<"/">> \o Segments(raw) \o <<"/">>
    IN  /\ Len(path) >= Len(upto)
        /\ SubSeq(path, 1, Len(upto)) = upto

(***************************************************************************)
(* C19: a rule with prefix R matches a request path only at a path-segment *)
(* boundary, whatever leading or trailing slashes the configured prefix    *)
(* had: a matched path lies under some rule's prefix followed by "/", and  *)
(* a path that lies under a rule's prefix followed by "/" is matched       *)
(* (/api matches /api/x and does not match /apiary).                       *)
(***************************************************************************)
C19_MatchesOnlyAtSegmentBoundary ==
    request # NoRequest =>
        /\ matched.some =>
              \E name \in DOMAIN listener_rules :
                  /\ AtSegmentBoundary(listener_rules[name].path_prefix, request.path)
                  /\ starts_with(request.path, matched.text)
        /\ (\E name \in DOMAIN listener_rules :
                AtSegmentBoundary(listener_rules[name].path_prefix, request.path))
           => matched.some

C19_Witness ==
    /\ request.path = <<"/", "a", "a">>
    /\ ~matched.some
    /\ \E name \in DOMAIN listener_rules :
          /\ Segments(listener_rules[name].path_prefix) = <<"a">>
          /\ listener_rules[name].path_prefix = <<"a", "/">>

(***************************************************************************)
(* C20: when borrowing a handle from the selected pool fails, the request  *)
(* is answered 500 INTERNAL_SERVER_ERROR with an empty body and nothing is *)
(* sent to any upstream.                                                   *)
(***************************************************************************)
C20_BorrowFailureAnswered500 ==
    \A t \in DOMAIN tasks :
        tasks[t].borrow = "failed"
        => /\ tasks[t].pc = "done"
           /\ tasks[t].response.status = INTERNAL_SERVER_ERROR
           /\ tasks[t].response.body = <<>>
           /\ tasks[t].handle = NoHandle
           /\ ~tasks[t].sent

C20_Witness ==
    \E t \in DOMAIN tasks :
        /\ tasks[t].borrow = "failed"
        /\ tasks[t].selection.some
        /\ tasks[t].pc = "done"
        /\ tasks[t].response.status = INTERNAL_SERVER_ERROR

(***************************************************************************)
(* SpecMain: the life of the process (main.rs `main`, `run`, `listen`).    *)
(* `run` takes its startup steps in order, then serves until its select!   *)
(* completes; `main` logs an Err of `run` and returns.                     *)
(***************************************************************************)
\* Exit codes of a Rust process: main returned, and a panic reached main.
EXIT_SUCCESS == 0
EXIT_PANIC == 101

\* The fallible statements of `run` in their order, and how each one fails:
\* with an Err that `run` returns, or with a panic (`expect`).
StartupSteps ==
    << [step |-> "configuration", failure |-> "Err"],                  \* 40-50
       [step |-> "listener", failure |-> "panic"],                     \* 65-67
       [step |-> "target_groups", failure |-> "Err"],                  \* 74-78
       [step |-> "connection_pools", failure |-> "Err"],               \* 80-83
       [step |-> "health_check_connection_pools", failure |-> "Err"],  \* 85-88
       [step |-> "signals", failure |-> "Err"] >>                      \* 111-112

StepNames == {StartupSteps[i].step : i \in 1..Len(StartupSteps)}
Serving == Len(StartupSteps) + 1
Signals == {"SIGINT", "SIGTERM"}
Connections == 1..MaxConnections

Exited(code) == [some |-> TRUE, code |-> code]

\* `main` (127-133): an Err of `run` is logged and main returns, as it does
\* after an Ok; a panic of `run` unwinds through main.
main(result) ==
    IF result = "panic" THEN Exited(EXIT_PANIC) ELSE Exited(EXIT_SUCCESS)

\* The runtime is dropped when main returns: a spawned task that has not
\* finished is dropped where it awaits.
RuntimeDropped ==
    [c \in Connections |-> IF spawned[c] = "forwarding" THEN "dropped" ELSE spawned[c]]

InitMain ==
    /\ failing \in SUBSET StepNames
    /\ stage = 1
    /\ spawned = [c \in Connections |-> "none"]
    /\ shutdown = "none"
    /\ exit_status = NotExited
    /\ IdleNew /\ IdleLoad /\ IdleServe /\ IdleLocks
    /\ IdleProxy /\ IdleStats /\ IdleCache /\ IdleRoute

MainFrame ==
    UNCHANGED <<failing, newVars, loadVars, serveVars, lockVars, proxyVars, statsVars,
                cacheVars, routeVars>>

\* One startup statement of `run` that succeeds.
StartupStep ==
    /\ ~exit_status.some
    /\ stage < Serving
    /\ StartupSteps[stage].step \notin failing
    /\ stage' = stage + 1
    /\ UNCHANGED <<spawned, shutdown, exit_status>>
    /\ MainFrame

\* One startup statement of `run` that fails: `run` ends and so does main.
StartupFailed ==
    /\ ~exit_status.some
    /\ stage < Serving
    /\ StartupSteps[stage].step \in failing
    /\ exit_status' = main(StartupSteps[stage].failure)
    /\ UNCHANGED <<stage, spawned, shutdown>>
    /\ MainFrame

\* `listen` (29-37): accept a connection and spawn its task; the JoinHandle
\* is dropped.
Accept(c) ==
    /\ ~exit_status.some
    /\ stage = Serving
    /\ spawned[c] = "none"
    /\ \A earlier \in 1..(c - 1) : spawned[earlier] # "none"
    /\ spawned' = [spawned EXCEPT ![c] = "forwarding"]
    /\ UNCHANGED <<stage, shutdown, exit_status>>
    /\ MainFrame

\* The spawned task relays its response and ends.
ConnectionServed(c) ==
    /\ ~exit_status.some
    /\ spawned[c] = "forwarding"
    /\ spawned' = [spawned EXCEPT ![c] = "responded"]
    /\ UNCHANGED <<stage, shutdown, exit_status>>
    /\ MainFrame

\* A branch of the select! (114-122) completes: a signal arrives, or the
\* accept loop ends on an Err of accept. `run` returns Ok(()) (124), main
\* returns and the runtime is dropped.
SelectCompleted(branch) ==
    /\ ~exit_status.some
    /\ stage = Serving
    /\ shutdown' = branch
    /\ spawned' = RuntimeDropped
    /\ exit_status' = main("Ok")
    /\ UNCHANGED stage
    /\ MainFrame

NextMain ==
    \/ StartupStep
    \/ StartupFailed
    \/ \E c \in Connections : Accept(c)
    \/ \E c \in Connections : ConnectionServed(c)
    \/ \E branch \in Signals \cup {"listen"} : SelectCompleted(branch)

SpecMain == InitMain /\ [][NextMain]_vars

\* The step `run` failed at, if the process ended during startup.
FailedStartup == exit_status.some /\ stage < Serving

(***************************************************************************)
(* C21: the process exits with code 0 after a shutdown by SIGINT or        *)
(* SIGTERM, and with a non-zero code when a startup step fails             *)
(* (configuration, targets, resolution or pool construction, bind).        *)
(***************************************************************************)
C21_ExitCodeTellsStartupFailure ==
    /\ (exit_status.some /\ shutdown \in Signals) => exit_status.code = 0
    /\ FailedStartup => exit_status.code # 0

(***************************************************************************)
(* C22: once a signal has ended the process, every connection that was     *)
(* accepted has received its response: none was dropped in flight.         *)
(***************************************************************************)
C22_InFlightForwardsComplete ==
    (exit_status.some /\ shutdown \in Signals) =>
        \A c \in Connections : spawned[c] # "dropped"

(***************************************************************************)
(* SpecMonitorNew: HealthMonitor::new (health_monitor.rs:29-59) over the   *)
(* pools of a map of target groups, and the spawn of main.rs:90-94.        *)
(***************************************************************************)
\* What target_group_configurations.get(group_name) gives, with the
\* health_check's `enabled` (config.rs:149-150, false by default).
Unconfigured == [configured |-> FALSE, enabled |-> FALSE]
Configured(enabled) == [configured |-> TRUE, enabled |-> enabled]
GroupConfigurations == {Unconfigured, Configured(FALSE), Configured(TRUE)}

\* The orders a HashMap's iter() may visit its keys in.
Orders(S) ==
    {order \in [1..Cardinality(S) -> S] :
        \A i, j \in 1..Cardinality(S) : order[i] = order[j] => i = j}

\* A mutant of HealthChecked: a configured group is checked whether or not
\* its health check is enabled.
HealthCheckedWhenConfigured(config) == config.configured

\* The match of lines 41-43: None | Some((false, _)) => continue.
HealthChecked(config) == config.configured /\ config.enabled

\* The loop of lines 35-50 over the remaining groups, then lines 52-58.
RECURSIVE HealthMonitorNewFrom(_, _, _, _)
HealthMonitorNewFrom(order, configurations, fails, health_check_targets) ==
    IF order = <<>>
    THEN IF health_check_targets = <<>>
         THEN [status |-> "None", health_check_targets |-> <<>>]
         ELSE [status |-> "Some", health_check_targets |-> health_check_targets]
    ELSE LET group_name == Head(order) IN
         IF ~HealthChecked(configurations[group_name])
         THEN HealthMonitorNewFrom(Tail(order), configurations, fails,
                                   health_check_targets)
         ELSE IF group_name \in fails
         THEN [status |-> "Err", health_check_targets |-> <<>>]
         ELSE HealthMonitorNewFrom(Tail(order), configurations, fails,
                  Append(health_check_targets,
                         [source_connection_pool |-> group_name]))

InitMonitorNew ==
    /\ \E n \in 0..MaxGroups :
          /\ target_group_configurations \in [1..n -> GroupConfigurations]
          /\ creation_fails \in SUBSET (1..n)
    /\ health_monitor = NotCalled
    /\ monitor_spawned = FALSE
    /\ IdleMain /\ IdleLoad /\ IdleServe /\ IdleLocks
    /\ IdleProxy /\ IdleStats /\ IdleCache /\ IdleRoute

MonitorNewFrame ==
    UNCHANGED <<target_group_configurations, creation_fails, mainVars, loadVars, serveVars,
                lockVars, proxyVars, statsVars, cacheVars, routeVars>>

\* HealthMonitor::new, called once by run with one pool list per group.
HealthMonitorNew ==
    /\ health_monitor = NotCalled
    /\ \E order \in Orders(DOMAIN target_group_configurations) :
          health_monitor' = HealthMonitorNewFrom(order, target_group_configurations,
                                                 creation_fails, <<>>)
    /\ UNCHANGED monitor_spawned
    /\ MonitorNewFrame

\* main.rs:90-94: the monitor task is spawned if a monitor was returned.
SpawnMonitor ==
    /\ health_monitor.status = "Some"
    /\ ~monitor_spawned
    /\ monitor_spawned' = TRUE
    /\ UNCHANGED health_monitor
    /\ MonitorNewFrame

NextMonitorNew == HealthMonitorNew \/ SpawnMonitor

SpecMonitorNew == InitMonitorNew /\ [][NextMonitorNew]_vars

\* The groups of the configuration in state s.
GroupsBeing(s) ==
    {g \in DOMAIN target_group_configurations : target_group_configurations[g] = s}
EnabledGroups == GroupsBeing(Configured(TRUE))
CheckedGroups ==
    {health_monitor.health_check_targets[i].source_connection_pool :
        i \in 1..Len(health_monitor.health_check_targets)}

(***************************************************************************)
(* C23: HealthMonitor::new returns one TargetGroupHealthCheck for exactly  *)
(* the groups whose health check is enabled; a disabled or unconfigured    *)
(* group causes no error; with no enabled group it returns no monitor and  *)
(* no monitor task is spawned.                                             *)
(***************************************************************************)
C23_OneCheckPerEnabledGroup ==
    /\ health_monitor.status = "Some" =>
          /\ CheckedGroups = EnabledGroups
          /\ Len(health_monitor.health_check_targets) = Cardinality(EnabledGroups)
    /\ health_monitor.status = "Err" => EnabledGroups \cap creation_fails # {}
    /\ (health_monitor # NotCalled /\ EnabledGroups = {}) =>
          health_monitor.status = "None"
    /\ health_monitor.status = "None" => EnabledGroups = {}
    /\ monitor_spawned => EnabledGroups # {}

C23_Witness ==
    /\ health_monitor.status = "Some"
    /\ monitor_spawned
    /\ Cardinality(EnabledGroups) = 1
    /\ GroupsBeing(Configured(FALSE)) # {}
    /\ GroupsBeing(Unconfigured) # {}
    /\ creation_fails \cap GroupsBeing(Configured(FALSE)) # {}

(***************************************************************************)
(* SpecStatsCalls: one HealthCheckStats value under any sequence of calls  *)
(* of its two methods, each call recorded with the value it was made on.   *)
(***************************************************************************)
StatsCallsFrame ==
    UNCHANGED <<thresholds, sinceChange, flip, probe, proxyVars, cacheVars, routeVars,
                handlerVars>>

\* HealthCheckStats::register_health_check (107-116).
RegisterHealthCheck(is_successful) ==
    /\ health_check_stats.count < MaxProbes
    /\ health_check_stats' = register_health_check(health_check_stats, is_successful)
    /\ called' = [method |-> "register_health_check", on |-> health_check_stats,
                  is_successful |-> is_successful, returned |-> FALSE]
    /\ StatsCallsFrame

\* HealthCheckStats::check_health (84-97) with the thresholds.
CheckHealth ==
    /\ LET verdict == check_health(health_check_stats, thresholds.failure_threshold,
                                   thresholds.success_threshold)
       IN  /\ health_check_stats' = verdict.stats
           /\ called' = [method |-> "check_health", on |-> health_check_stats,
                         is_successful |-> FALSE, returned |-> verdict.healthy]
    /\ StatsCallsFrame

NextStatsCalls ==
    \/ \E is_successful \in BOOLEAN : RegisterHealthCheck(is_successful)
    \/ CheckHealth

SpecStatsCalls == InitStats /\ [][NextStatsCalls]_vars

ClampedPred(n) == IF n = 0 THEN 0 ELSE n - 1

(***************************************************************************)
(* C24: register_health_check keeps the variant and moves the counter by   *)
(* at most one without going below 0: in the healthy variant (failures     *)
(* counted) a failed probe adds 1 and a successful one subtracts 1 clamped *)
(* at 0; in the unhealthy variant (successes counted) a successful probe   *)
(* adds 1 and a failed one subtracts 1 clamped at 0.                       *)
(***************************************************************************)
C24_RegisterMovesCounterByOne ==
    called.method = "register_health_check" =>
        LET before == called.on
            after == health_check_stats
            counted == IF before.variant = "UnsuccessfulCheckCount"
                       THEN ~called.is_successful
                       ELSE called.is_successful
        IN  /\ after.variant = before.variant
            /\ after.count >= 0
            /\ after.count - before.count \in {-1, 0, 1}
            /\ after.count = IF counted THEN before.count + 1
                             ELSE ClampedPred(before.count)

C24_Witness ==
    /\ called.method = "register_health_check"
    /\ called.on.variant = "SuccessfulCheckCount"
    /\ called.on.count = 0
    /\ ~called.is_successful
    /\ health_check_stats.count = 0

(***************************************************************************)
(* C25: check_health flips the classification exactly when the counter     *)
(* exceeds the threshold of its variant, leaving the other variant with    *)
(* count 0 and returning the new classification; in every other state it   *)
(* leaves the stats as they are and returns the current classification.    *)
(***************************************************************************)
C25_CheckHealthFlipsAboveThreshold ==
    called.method = "check_health" =>
        LET before == called.on
            after == health_check_stats
        IN  IF before.variant = "UnsuccessfulCheckCount"
            THEN IF before.count > thresholds.failure_threshold
                 THEN ~called.returned
                      /\ after = [variant |-> "SuccessfulCheckCount", count |-> 0]
                 ELSE called.returned /\ after = before
            ELSE IF before.count > thresholds.success_threshold
                 THEN called.returned
                      /\ after = [variant |-> "UnsuccessfulCheckCount", count |-> 0]
                 ELSE ~called.returned /\ after = before

C25_Witness ==
    /\ called.method = "check_health"
    /\ called.on.variant = "SuccessfulCheckCount"
    /\ called.on.count = thresholds.success_threshold + 1
    /\ thresholds.success_threshold > 0
    /\ called.returned

(***************************************************************************)
(* The passes of TargetGroupHealthCheck seen as single steps (SpecPasses). *)
(***************************************************************************)
\* Entry i of the pools and entry i of the targets are of the same socket.
IndexAligned(pools, targets) ==
    /\ Len(pools) = Len(targets)
    /\ \A i \in 1..Len(pools) : pools[i].socket = targets[i].socket

\* The sockets of the targets of a list that a pass classifies as `healthy`.
ClassifiedAs(targets, healthy) ==
    {targets[i].socket :
        i \in {j \in 1..Len(targets) : ProbeAll(targets)[j].healthy = healthy}}

Without(list, sockets) == SelectSeq(list, LAMBDA e : e.socket \notin sockets)

\* `after` is `before` with one entry for each of the sockets appended.
AppendedTo(before, after, sockets) ==
    /\ Len(after) = Len(before) + Cardinality(sockets)
    /\ SubSeq(after, 1, Len(before)) = before
    /\ {after[i].socket : i \in (Len(before) + 1)..Len(after)} = sockets

(***************************************************************************)
(* C26: a demotion pass removes from the healthy pool list exactly the     *)
(* pools whose target it classified unhealthy, appends each to the         *)
(* unhealthy list together with its HealthCheckTarget, and leaves the      *)
(* healthy pool list and the healthy target list index-aligned, also when  *)
(* several indexes are demoted in one pass.                                *)
(***************************************************************************)
C26_DemotionMovesExactlyTheUnhealthy ==
    [][CheckHealthyConnectionPools =>
        LET demoted == ClassifiedAs(healthy_health_check_connection_pool, FALSE) IN
        /\ ~panicked'
        /\ source_connection_pool' = Without(source_connection_pool, demoted)
        /\ AppendedTo(unhealthy_connection_pool, unhealthy_connection_pool', demoted)
        /\ AppendedTo(unhealthy_health_check_connection_pool,
                      unhealthy_health_check_connection_pool', demoted)
        /\ IndexAligned(unhealthy_connection_pool',
                        unhealthy_health_check_connection_pool')
        /\ IndexAligned(source_connection_pool',
                        healthy_health_check_connection_pool')]_vars

C26_Witness ==
    /\ Cardinality(recently_unhealthy) = 2
    /\ rounds = 0
    /\ ~panicked
    /\ source_connection_pool = <<>>
    /\ Len(unhealthy_connection_pool) = 2
    /\ IndexAligned(unhealthy_connection_pool, unhealthy_health_check_connection_pool)

(***************************************************************************)
(* C27: a promotion pass moves exactly the unhealthy upstreams that became *)
(* healthy, with their HealthCheckTargets, to the end of the healthy       *)
(* lists; it removes nothing from the healthy list and indexes no list out *)
(* of range.                                                               *)
(***************************************************************************)
C27_PromotionMovesExactlyTheRecovered ==
    [][CheckUnhealthyConnectionPools =>
        LET promoted == ClassifiedAs(unhealthy_health_check_connection_pool, TRUE) IN
        /\ ~panicked'
        /\ AppendedTo(source_connection_pool, source_connection_pool', promoted)
        /\ AppendedTo(healthy_health_check_connection_pool,
                      healthy_health_check_connection_pool', promoted)
        /\ unhealthy_connection_pool' = Without(unhealthy_connection_pool, promoted)]_vars

(***************************************************************************)
(* C28: a request holds the read lock of its group's list only while it    *)
(* selects its pool: a request whose forward is in flight holds no read    *)
(* lock, so it cannot keep the monitor's write() waiting.                  *)
(***************************************************************************)
C28_NoReadLockAcrossForward ==
    \A t \in LockTasks :
        handlers[t].pc = "forwarding" => t \notin rwlock["connection_pools"].readers

(***************************************************************************)
(* SpecStrip: one rule with any path_prefix and any path_rewrite, the      *)
(* default one included, and one request.                                  *)
(***************************************************************************)
\* RawStrings holds the empty string, the default path_rewrite (config.rs:89-91).
InitStrip ==
    /\ \E raw_prefix \in RawStrings, raw_rewrite \in RawStrings :
           listener_rules = [name \in {"r1"} |->
                                [path_prefix |-> raw_prefix, path_rewrite |-> raw_rewrite]]
    /\ graft = <<>>
    /\ request = NoRequest
    /\ matched = None
    /\ upstream_uri = NothingSent
    /\ IdleProxy /\ IdleStats /\ IdleCache /\ IdleHandlers

SpecStrip == InitStrip /\ [][NextRewrite]_vars

(***************************************************************************)
(* C29: for every rule (any path_prefix, any path_rewrite, the default     *)
(* included) and every request path the rule's prefix matches, stripping   *)
(* the rule's path_rewrite from the path succeeds: the handler does not    *)
(* abort with "Failed to strip prefix for matched path".                   *)
(***************************************************************************)
C29_MatchedPathIsStripped ==
    matched.some => ~upstream_uri.panicked

(***************************************************************************)
(* SpecServeLive: SpecServe with the steps the proxy takes on its own      *)
(* being taken: the clock advances, a timer that is over fires, the        *)
(* cleanup task runs and a borrow from the pool resolves (bb8 bounds it by *)
(* its own connection timeout).  What waits for the upstream (the handle   *)
(* becoming ready, the response head, the body) may wait forever.          *)
(***************************************************************************)
ServeFairness ==
    /\ WF_vars(ServeTick)
    /\ WF_vars(ServeCleanup)
    /\ \A t \in Tasks : WF_vars(ServeTimeout(t))
    /\ \A t \in Tasks : WF_vars(BorrowOk(t) \/ BorrowFailed(t))

SpecServeLive == InitServe /\ [][NextServe]_vars /\ ServeFairness

\* The handler of task t has ended: it returned a response or panicked.
Ended(t) == tasks[t].pc \in {"done", "panicked"}

(***************************************************************************)
(* C30: a forward whose upstream stalls before the borrowed handle is      *)
(* ready, or in the middle of the response body, still ends: the request   *)
(* is answered (relayed or 504) because the per-forward timeout covers the *)
(* whole forward.                                                          *)
(***************************************************************************)
C30_StalledForwardAnswered ==
    \A t \in Tasks : (tasks[t].pc \in {"ready", "collecting"}) ~> Ended(t)

\* The handles of the pool of socket s that in-flight requests hold.
HeldOf(s) ==
    {tasks[t].handle.id :
        t \in {u \in DOMAIN tasks : Holding(tasks[u]) /\ tasks[u].handle.socket = s}}

(***************************************************************************)
(* C31: the handles checked out of a pool are exactly those held by the    *)
(* forwards in flight: a forward that ended, with a relayed response or    *)
(* with a 504 of the timer, gave its handle back, and once every request   *)
(* has completed no pool has a borrowed handle.                            *)
(***************************************************************************)
C31_NoHandleOutlivesItsForward ==
    \A s \in DOMAIN borrowed : borrowed[s] = HeldOf(s)

C31_Witness ==
    /\ \A s \in DOMAIN borrowed : borrowed[s] = {}
    /\ \E t1, t2 \in DOMAIN tasks :
          /\ tasks[t1].pc = "done" /\ tasks[t1].borrow = "ok"
          /\ tasks[t1].response.status = GATEWAY_TIMEOUT
          /\ tasks[t2].pc = "done" /\ tasks[t2].borrow = "ok"
          /\ tasks[t2].response.origin = "upstream"

(***************************************************************************)
(* SpecProbe: HealthCheckTarget::run_check_health (health_monitor.rs       *)
(* 151-211) for every way a probe can go, each run followed or not by      *)
(* check_health.                                                           *)
(***************************************************************************)
\* How a probe goes: which of the function's fallible steps fails, or what
\* the select! of lines 186-205 resolves with.
ProbeOutcomes ==
    {"uri Err", "request Err", "get Err", "ready Err",
     "200 OK", "other status", "send Err", "timeout"}

\* A mutant of ProbePath: any response of the upstream counts as a success.
ProbePathAnyStatus(outcome) ==
    [registered |-> IF outcome \in {"200 OK", "other status"} THEN <<TRUE>> ELSE <<FALSE>>,
     ended |-> "returned"]

\* The arguments of the register_health_check calls on the path the
\* function takes for an outcome, and how the function ends on it.
ProbePath(outcome) ==
    CASE outcome = "uri Err"      -> [registered |-> <<FALSE>>, ended |-> "returned"]  \* 153-159
      [] outcome = "request Err"  -> [registered |-> <<FALSE>>, ended |-> "returned"]  \* 167-172
      [] outcome = "get Err"      -> [registered |-> <<FALSE>>, ended |-> "returned"]  \* 176-182
      [] outcome = "ready Err"    -> [registered |-> <<FALSE>>, ended |-> "returned"]  \* 185-188
      [] outcome = "200 OK"       -> [registered |-> <<TRUE>>, ended |-> "returned"]   \* 194
      [] outcome = "other status" -> [registered |-> <<FALSE>>, ended |-> "returned"]  \* 195-198
      [] outcome = "send Err"     -> [registered |-> <<FALSE>>, ended |-> "returned"]  \* 199-202
      [] outcome = "timeout"      -> [registered |-> <<FALSE>>, ended |-> "returned"]  \* 205-208

RECURSIVE RegisterAll(_, _)
RegisterAll(stats, outcomes) ==
    IF outcomes = <<>> THEN stats
    ELSE RegisterAll(register_health_check(stats, Head(outcomes)), Tail(outcomes))

RunCheckHealth(outcome) ==
    /\ health_check_stats.count < MaxProbes
    /\ LET path == ProbePath(outcome)
           after == RegisterAll(health_check_stats, path.registered)
       IN  /\ health_check_stats' = after
           /\ probe' = [outcome |-> outcome, registered |-> path.registered,
                        ended |-> path.ended, on |-> health_check_stats,
                        after |-> after]
    /\ UNCHANGED <<thresholds, sinceChange, flip, called, proxyVars, cacheVars,
                   routeVars, handlerVars>>

NextProbe ==
    \/ \E outcome \in ProbeOutcomes : RunCheckHealth(outcome)
    \/ CheckHealth

SpecProbe == InitStats /\ [][NextProbe]_vars

(***************************************************************************)
(* C32: a run of run_check_health registers exactly one outcome on the     *)
(* target's stats, a success only for a 200 OK answered before the timer   *)
(* and a failure for every other way the probe can go, and the run         *)
(* returns: no error of the probe leaves the function.                     *)
(***************************************************************************)
C32_ProbeRegistersOneOutcome ==
    probe.outcome # "none" =>
        /\ Len(probe.registered) = 1
        /\ probe.registered[1] = (probe.outcome = "200 OK")
        /\ probe.ended = "returned"
        /\ probe.after.variant = probe.on.variant
        /\ probe.after.count =
              IF (probe.on.variant = "SuccessfulCheckCount") = (probe.outcome = "200 OK")
              THEN probe.on.count + 1
              ELSE ClampedPred(probe.on.count)

C32_Witness ==
    /\ probe.outcome = "timeout"
    /\ probe.on.variant = "UnsuccessfulCheckCount"
    /\ probe.after.count = probe.on.count + 1
    /\ health_check_stats.variant = "SuccessfulCheckCount"

\* The age of a stored entry.
Age(entry) == now - entry.set_time

(***************************************************************************)
(* C33: each time the cleanup task wakes it removes every entry whose age  *)
(* exceeds the TTL and keeps every entry whose age does not; so no entry   *)
(* stays in the cache for more than twice the TTL after it was set.        *)
(***************************************************************************)
C33_CleanupEvictsWithinTwoTtl ==
    /\ [](\A k \in DOMAIN inner : inner[k].present => Age(inner[k]) <= 2 * ttl)
    /\ [][Cleanup =>
            \A k \in DOMAIN inner :
                IF inner[k].present /\ Age(inner[k]) <= ttl
                THEN inner'[k] = inner[k]
                ELSE ~inner'[k].present]_vars

C33_Witness ==
    /\ ttl >= 2
    /\ \E k1, k2 \in DOMAIN inner :
          /\ inner[k1].present /\ Age(inner[k1]) = 2 * ttl
          /\ ~inner[k2].present
          /\ now = wake

(***************************************************************************)
(* SpecProbePools: requests of the data plane together with the probes of  *)
(* the health monitor, each upstream with its data-plane pool and the pool *)
(* create_health_check_pool built for its HealthCheckTarget.               *)
(***************************************************************************)
\* A mutant of create_health_check_pool: the HealthCheckTarget is given the
\* data-plane pool itself.
create_health_check_pool_shared(socket) ==
    [owner |-> "data plane", socket |-> socket, max_size |-> max_size]

\* TargetConnectionPool::create_health_check_pool (connection_pool.rs
\* 157-169): a new pool for the same socket, built with max_size(1).
create_health_check_pool(socket) ==
    [owner |-> "health monitor", socket |-> socket, max_size |-> 1]

\* The handles checked out of a pool.
HeldIn(pool) ==
    IF pool.owner = "data plane" THEN borrowed[pool.socket] ELSE probing[pool.socket]

\* The pools after the handles `held` are those checked out of `pool`.
WithHeld(pool, held) ==
    /\ borrowed' = IF pool.owner = "data plane"
                   THEN [borrowed EXCEPT ![pool.socket] = held] ELSE borrowed
    /\ probing' = IF pool.owner = "data plane"
                  THEN probing ELSE [probing EXCEPT ![pool.socket] = held]

\* The handle the probe of a socket holds, if one is in flight.
ProbeHandles(socket) ==
    LET pool == create_health_check_pool(socket) IN
    IF pool.owner = "data plane" THEN HeldIn(pool) \ HeldOf(socket) ELSE HeldIn(pool)

ProbeFrame ==
    UNCHANGED <<health_check, upstreamOk, connection_pools, monitorVars, passVars,
                selectVars, statsVars, cacheVars, routeVars, cache_enabled,
                connection_timeout, max_size, tasks, lockVars, startVars>>

\* run_check_health up to line 184: self.connection_pool.connection_pool
\* .get() gave a handle of the target's pool.
ProbeGet(s) ==
    LET pool == create_health_check_pool(s) IN
    /\ ProbeHandles(s) = {}
    /\ \E id \in PoolGet(HeldIn(pool), pool.max_size) :
          WithHeld(pool, HeldIn(pool) \cup {id})
    /\ ProbeFrame

\* run_check_health returns (185-210): the PooledConnection `target` is
\* dropped.
ProbeReturns(s) ==
    LET pool == create_health_check_pool(s) IN
    /\ ProbeHandles(s) # {}
    /\ WithHeld(pool, HeldIn(pool) \ ProbeHandles(s))
    /\ ProbeFrame

InitProbePools == InitServe /\ ~cache_enabled

NextProbePools ==
    \/ \E t \in Tasks, uri \in ServeUris : Receive(t, uri)
    \/ \E t \in Tasks : BorrowOk(t)
    \/ \E t \in Tasks : BorrowFailed(t)
    \/ \E t \in Tasks : SendRequest(t)
    \/ \E t \in Tasks : UpstreamResponds(t)
    \/ \E t \in Tasks : ServeTimeout(t)
    \/ \E t \in Tasks : CollectBody(t)
    \/ ServeTick
    \/ \E s \in DOMAIN probing : ProbeGet(s)
    \/ \E s \in DOMAIN probing : ProbeReturns(s)

SpecProbePools == InitProbePools /\ [][NextProbePools]_vars

(***************************************************************************)
(* C34: a probe never contends with the data plane for handles: whatever   *)
(* number of data-plane handles of an upstream is borrowed, a probe that   *)
(* is not yet in flight finds a free handle in its own pool, and the       *)
(* handles checked out of the data-plane pool are those of requests only.  *)
(***************************************************************************)
C34_ProbeHasItsOwnPool ==
    \A s \in DOMAIN probing :
        /\ borrowed[s] = HeldOf(s)
        /\ ProbeHandles(s) = {} =>
              PoolGet(HeldIn(create_health_check_pool(s)),
                      create_health_check_pool(s).max_size) # {}

C34_Witness ==
    \E s \in DOMAIN probing :
        /\ Cardinality(borrowed[s]) = max_size
        /\ max_size = MaxPoolSize
        /\ probing[s] # {}

(***************************************************************************)
(* SpecCacheKey: LoadBalancer::handle_connection (load_balancer.rs:94-125) *)
(* with the cache, for requests of several methods; what lies between the  *)
(* lookup and the store is reduced to the response it produces, which      *)
(* names the method of the request it answers.                             *)
(***************************************************************************)
Methods == {"GET", "POST"}

\* The response produced for a request of a method.
ResponseTo(method) == [status |-> 200, body |-> <<method>>, origin |-> "upstream"]

\* Line 100: let uri = request.uri().to_string().
CacheKey(method, uri) == uri

InitCacheKey ==
    /\ ttl \in 1..MaxTtl
    /\ now = 0
    /\ wake = ttl
    /\ inner = [k \in Keys |-> Absent]
    /\ got = [hit |-> FALSE, age |-> 0] /\ answered = NoAnswer
    /\ cache_enabled = TRUE
    /\ connection_timeout = 0 /\ max_size = 0
    /\ borrowed = <<>> /\ tasks = <<>> /\ probing = <<>>
    /\ IdleProxy /\ IdleStats /\ IdleRoute /\ IdleLocks /\ IdleStart

\* Lines 100-124: the stored response of the key is returned if there is
\* one (102-104); otherwise a response is produced and stored (120-122).
ServeThroughCache(method, uri) ==
    LET key == CacheKey(method, uri) IN
    /\ IF inner[key].present
       THEN /\ answered' = [method |-> method, uri |-> uri, from_cache |-> TRUE,
                            response |-> inner[key].inner]
            /\ UNCHANGED inner
       ELSE /\ answered' = [method |-> method, uri |-> uri, from_cache |-> FALSE,
                            response |-> ResponseTo(method)]
            /\ inner' = [inner EXCEPT ![key] = CachedResponse(ResponseTo(method), now)]
    /\ UNCHANGED <<ttl, now, wake, got, proxyVars, statsVars, routeVars, handlerVars>>

NextCacheKey ==
    \/ Tick
    \/ Cleanup
    \/ \E method \in Methods, uri \in Keys : ServeThroughCache(method, uri)

SpecCacheKey == InitCacheKey /\ [][NextCacheKey]_vars

BarePrefixes ==
    {trim_end_matches(ListenerRule(listener_rules[name]).path_prefix, "/") :
        name \in DOMAIN listener_rules} \ {<<>>}

ShorterMatching(path) ==
    {c \in CanonicalPrefixes : Len(c) < Len(path) /\ starts_with(path, c)}

C36_BarePrefixIsNotMatchedByItsRule ==
    (request # NoRequest /\ request.path \in BarePrefixes) =>
        /\ matched \notin {Some(request.path), Some(request.path \o <<"/">>)}
        /\ IF ShorterMatching(request.path) = {} THEN matched = None
           ELSE matched.some /\ matched.text \in ShorterMatching(request.path)

\* Rules /a and /a/a, and the path /a/a routed by /a.
C36_Witness ==
    /\ CanonicalPrefixes = {<<"/", "a", "/">>, <<"/", "a", "/", "a", "/">>}
    /\ request.path = <<"/", "a", "/", "a">>
    /\ matched = Some(<<"/", "a", "/">>)

\* Rules /a and /a/a, and the path /a no rule matches.
C36_UnmatchedBarePrefix ==
    /\ CanonicalPrefixes = {<<"/", "a", "/">>, <<"/", "a", "/", "a", "/">>}
    /\ request.path = <<"/", "a">>
    /\ matched = None

(***************************************************************************)
(* The load generator (src/configurable-load-generator).                   *)
(*                                                                         *)
(* SpecTargets: ClientTargets::run_client_targets (targets/mod.rs:81-141)  *)
(* for one target, with the SlidingFailureWindow (targets/window.rs), the  *)
(* client tasks it spawns, and the select! of main (main.rs:48-60) that    *)
(* keeps the runtime up while another target still runs.  Time is counted  *)
(* in units of the configured durations.  The loop is never late: the      *)
(* clock does not advance while a branch of its select! is ready.          *)
(***************************************************************************)
MaxInstant == 4
MaxRampInterval == 2
MaxErrorWindow == 2
MaxErrorThreshold == 2
MaxRamp == 1
MaxOtherTargets == 1

proxyOnlyVars == <<proxyVars, statsVars, cacheVars, routeVars, serveVars, lockVars,
                   mainVars, newVars>>

IdleProxyOnly ==
    /\ IdleProxy /\ IdleStats /\ IdleCache /\ IdleRoute
    /\ IdleServe /\ IdleLocks /\ IdleMain /\ IdleNew

TargetConfigs ==
    [client_error_threshold : 1..MaxErrorThreshold,
     client_error_threshold_window : 1..MaxErrorWindow,
     client_count_start : 1..MaxRamp,
     client_count_ramp : 1..MaxRamp,
     client_count_ramp_interval : 1..MaxRampInterval]

\* RampStrategy::Step
next_ramp_time(current_ramp_time) == current_ramp_time

next_ramp(current_ramp) == target_config.client_count_ramp

\* SlidingFailureWindow::append_failure
append_failure(window) == Append(window, instant)

\* SlidingFailureWindow::update_window: retain(|i| i > now - window_size)
update_window(window) ==
    LET start == instant - target_config.client_error_threshold_window
        RECURSIVE retain(_)
        retain(rest) ==
            IF rest = <<>> THEN <<>>
            ELSE IF Head(rest) > start THEN <<Head(rest)>> \o retain(Tail(rest))
            ELSE retain(Tail(rest))
    IN  retain(window)

\* SlidingFailureWindow::threshold_exceeded
threshold_exceeded(window) ==
    Len(update_window(window)) >= target_config.client_error_threshold

\* ClientTargets::from (35-51), the locals of run_client_targets (82-83) and
\* the sleep of the first iteration of its loop (87).
InitTargets ==
    /\ instant = 0
    /\ target_config \in TargetConfigs
    /\ client_target_threads = [running |-> 0, failed |-> 0]
    /\ client_tasks = 0
    /\ failures = <<>>
    /\ ramp = [current_ramp |-> target_config.client_count_start,
               current_ramp_time |-> target_config.client_count_ramp_interval,
               sleep_until |-> target_config.client_count_ramp_interval,
               batches |-> 0, last_batch |-> 0]
    /\ run_result = NotReturned
    /\ other_targets \in 0..MaxOtherTargets
    /\ runtime = "running"
    /\ statistics = NoStatistics
    /\ IdleStatistics /\ IdleProxyOnly

Running == runtime = "running" /\ run_result.status = "running"

\* create_client_targets (66-79): the clients are spawned, their handles
\* pushed, and statistics.clients raised.
create_client_targets(threads, current_ramp) ==
    /\ client_target_threads' = [threads EXCEPT !.running = @ + current_ramp]
    /\ client_tasks' = client_tasks + current_ramp
    /\ statistics' = [statistics EXCEPT !.clients = @ + current_ramp]

\* The sleep of the next iteration of the loop (87).
Resleep(next) == [next EXCEPT !.sleep_until = instant + next.current_ramp_time]

\* Lines 88-91 and 132-135: a batch of current_ramp clients.
Batch ==
    /\ create_client_targets(client_target_threads, ramp.current_ramp)
    /\ ramp' = Resleep([ramp EXCEPT !.current_ramp = next_ramp(ramp.current_ramp),
                                    !.current_ramp_time = next_ramp_time(ramp.current_ramp_time),
                                    !.batches = @ + 1,
                                    !.last_batch = instant])
    /\ UNCHANGED <<instant, target_config, failures, run_result, other_targets, runtime,
                   client, printer, reports, proxyOnlyVars>>

\* The branch of the select! taken when the sleep has elapsed (87-92).
SleepElapsed ==
    /\ Running
    /\ instant >= ramp.sleep_until
    /\ Batch

\* client_target_threads.next() yields None: no handle is held (131-136).
ThreadsDrained ==
    /\ Running
    /\ client_target_threads.running + client_target_threads.failed = 0
    /\ Batch

\* A client task ends with an error (run_client, client.rs:59-77), or panics.
ClientEndsWithError ==
    /\ runtime = "running"
    /\ client_target_threads.running > 0
    /\ client_target_threads' = [client_target_threads EXCEPT !.running = @ - 1,
                                                              !.failed = @ + 1]
    /\ client_tasks' = client_tasks - 1
    /\ UNCHANGED <<instant, target_config, failures, ramp, run_result, other_targets,
                   runtime, statistics, client, printer, reports, proxyOnlyVars>>

\* client_target_threads.next() yields the handle of a failed client
\* (95-126): the failure is appended; if the threshold is exceeded the
\* handles are dropped, which detaches the tasks they belong to, and the run
\* returns; otherwise one client is created and the loop sleeps anew.
ClientFailed ==
    /\ Running
    /\ client_target_threads.failed > 0
    /\ failures' = update_window(append_failure(failures))
    /\ IF threshold_exceeded(append_failure(failures))
       THEN /\ client_target_threads' = [running |-> 0, failed |-> 0]
            /\ run_result' = [status |-> "FailureThresholdExceeded",
                              count |-> Len(failures'), at |-> instant]
            /\ UNCHANGED <<client_tasks, statistics, ramp>>
       ELSE /\ create_client_targets([client_target_threads EXCEPT !.failed = @ - 1], 1)
            /\ ramp' = Resleep(ramp)
            /\ UNCHANGED run_result
    /\ UNCHANGED <<instant, target_config, other_targets, runtime,
                   client, printer, reports, proxyOnlyVars>>

\* Another target's run_client_targets returns.
OtherTargetReturns ==
    /\ runtime = "running"
    /\ other_targets > 0
    /\ other_targets' = other_targets - 1
    /\ UNCHANGED <<instant, target_config, client_target_threads, client_tasks, failures,
                   ramp, run_result, runtime, statistics, client, printer, reports,
                   proxyOnlyVars>>

\* main.rs:48-61: every target has returned, main returns and the runtime
\* is shut down, which cancels the tasks still running.
MainReturns ==
    /\ runtime = "running"
    /\ run_result.status # "running"
    /\ other_targets = 0
    /\ runtime' = "shut down"
    /\ client_tasks' = 0
    /\ UNCHANGED <<instant, target_config, client_target_threads, failures, ramp,
                   run_result, other_targets, statistics, client, printer, reports,
                   proxyOnlyVars>>

TickTargets ==
    /\ instant < MaxInstant
    /\ runtime = "running"
    /\ IF run_result.status = "running"
       THEN /\ instant < ramp.sleep_until
            /\ client_target_threads.failed = 0
            /\ client_target_threads.running > 0
       ELSE other_targets > 0
    /\ instant' = instant + 1
    /\ UNCHANGED <<target_config, client_target_threads, client_tasks, failures, ramp,
                   run_result, other_targets, runtime, statistics, client, printer,
                   reports, proxyOnlyVars>>

NextTargets ==
    \/ SleepElapsed
    \/ ThreadsDrained
    \/ ClientEndsWithError
    \/ ClientFailed
    \/ OtherTargetReturns
    \/ MainReturns
    \/ TickTargets

SpecTargets == InitTargets /\ [][NextTargets]_vars

(***************************************************************************)
(* C37: once run_client_targets has returned FailureThresholdExceeded, no  *)
(* client task of the target is running any more.                          *)
(***************************************************************************)
C37_FailedRunLeavesNoClientTask ==
    (run_result.status = "FailureThresholdExceeded" /\ instant > run_result.at)
        => client_tasks = 0

(***************************************************************************)
(* C38: while the run has not failed, no more than                         *)
(* client_count_ramp_interval passes after a batch without the next batch. *)
(***************************************************************************)
C38_NextBatchWithinRampInterval ==
    (Running /\ ramp.batches > 0)
        => instant - ramp.last_batch <= target_config.client_count_ramp_interval

(***************************************************************************)
(* SpecStatistics: StatisticsManager::run_statistics and print_statistic   *)
(* (stats/mod.rs:46-77) for one target, beside the clients whose           *)
(* handle_get (targets/client.rs:83-123) counts its completed requests.    *)
(* The tasks run on a multi-threaded runtime, so the two fetch_add of a    *)
(* client and the two swap of print_statistic interleave freely.  Every    *)
(* request takes Latency milliseconds.                                     *)
(***************************************************************************)
MaxStatClients == 2
MaxRequests == 2
MaxIntervals == 3
Latency == 2

\* create_stats_for_target (34-44) and the clients of the target at work.
InitStatistics ==
    /\ \E n \in 1..MaxStatClients :
          /\ statistics = [requests |-> 0, response_time_acc |-> 0, clients |-> n]
          /\ client = [c \in 1..n |-> [pc |-> "sending", completed |-> 0]]
    /\ printer = [pc |-> "sleeping", requests_for_iteration |-> 0, ended |-> 0]
    /\ reports = <<>>
    /\ IdleTargets /\ IdleProxyOnly

\* handle_get, lines 84-101: the response and its body have arrived, and
\* request_statistics.fetch_add(1).
RequestCounted(c) ==
    /\ client[c].pc = "sending"
    /\ client[c].completed < MaxRequests
    /\ statistics' = [statistics EXCEPT !.requests = @ + 1]
    /\ client' = [client EXCEPT ![c].pc = "counted"]
    /\ UNCHANGED <<printer, reports, targetVars, proxyOnlyVars>>

\* handle_get, lines 102-105: response_time_acc.fetch_add(elapsed), and
\* run_client goes on to the next request.
LatencyAdded(c) ==
    /\ client[c].pc = "counted"
    /\ statistics' = [statistics EXCEPT !.response_time_acc = @ + Latency]
    /\ client' = [client EXCEPT ![c] = [pc |-> "sending", completed |-> @.completed + 1]]
    /\ UNCHANGED <<printer, reports, targetVars, proxyOnlyVars>>

\* run_statistics, lines 47-57, and print_statistic, line 62: the interval
\* has elapsed and stats.requests.swap(0).
SwapRequests ==
    /\ printer.pc = "sleeping"
    /\ printer.ended < MaxIntervals
    /\ printer' = [pc |-> "swapped", requests_for_iteration |-> statistics.requests,
                   ended |-> printer.ended + 1]
    /\ statistics' = [statistics EXCEPT !.requests = 0]
    /\ UNCHANGED <<client, reports, targetVars, proxyOnlyVars>>

\* print_statistic, lines 63-76: stats.response_time_acc.swap(0), the
\* division of line 68, which panics when no request was counted, and the
\* line printed.
SwapAccumulatorAndPrint ==
    /\ printer.pc = "swapped"
    /\ statistics' = [statistics EXCEPT !.response_time_acc = 0]
    /\ IF printer.requests_for_iteration = 0
       THEN /\ printer' = [printer EXCEPT !.pc = "panicked"]
            /\ UNCHANGED reports
       ELSE /\ printer' = [printer EXCEPT !.pc = "sleeping"]
            /\ reports' = Append(reports,
                   [clients |-> statistics.clients,
                    requests |-> printer.requests_for_iteration,
                    request_time_acc |-> statistics.response_time_acc,
                    average_response_time |->
                        statistics.response_time_acc \div printer.requests_for_iteration])
    /\ UNCHANGED <<client, targetVars, proxyOnlyVars>>

NextStatistics ==
    \/ \E c \in DOMAIN client : RequestCounted(c)
    \/ \E c \in DOMAIN client : LatencyAdded(c)
    \/ SwapRequests
    \/ SwapAccumulatorAndPrint

SpecStatistics == InitStatistics /\ [][NextStatistics]_vars

(***************************************************************************)
(* C39: every interval that has ended has its line printed, whatever the   *)
(* number of requests completed in it.                                     *)
(***************************************************************************)
C39_EveryEndedIntervalIsReported ==
    printer.pc # "swapped" => Len(reports) = printer.ended

(***************************************************************************)
(* C40: the latency sum of every printed interval is the sum of the        *)
(* latencies of the requests counted in that interval.                     *)
(***************************************************************************)
C40_ReportedLatencyMatchesCount ==
    \A i \in 1..Len(reports) :
        reports[i].request_time_acc = Latency * reports[i].requests

====
